---- MODULE Spec2Model ----
(***************************************************************************)
(* Thread graph and chain insertion of obsidian-thread-notes.              *)
(*                                                                         *)
(* The module holds ten state machines over the same variables:            *)
(*   SpecGraph   the ThreadGraph object driven through its public methods  *)
(*               (setPrev, buildNextMap, clear) by an arbitrary client;    *)
(*   SpecBuild   buildGraph on a vault with well-formed, dangling, missing *)
(*               and malformed prev metadata, over a graph used before;    *)
(*   SpecQuery   a vault of four notes, the graph built from it by         *)
(*               buildGraph, the traversal queries run on that graph and   *)
(*               the thread data a view loads from them;                   *)
(*   Spec        the plugin: a vault of three notes, buildGraph on layout  *)
(*               ready, and ChainInsertionService.executeInsertion, one    *)
(*               step per segment between two awaits, each of which the    *)
(*               vault may reject;                                         *)
(*   SpecConc    the plugin with two executeInsertion calls in flight;     *)
(*   SpecMutation applyMutation on the text of a file, line by line;       *)
(*   SpecSave    the plugin with a ThreadView that loads a thread, saves   *)
(*               the edits of its editors and reloads after an insertion;  *)
(*   SpecTrigger the EmptyLineObserver of one editor under arbitrary edits;*)
(*   SpecDebounce the same observer with the time of its debounce timer;   *)
(*   SpecView    one ThreadView with its PropertyEditor and the            *)
(*               add-property command.                                     *)
(***************************************************************************)
EXTENDS Naturals, Sequences, FiniteSets, TLC

VARIABLES
    prevMap,        \* ThreadGraph.prevMap: a JS Map, kept as its entry list in insertion order
    nextMap,        \* ThreadGraph.nextMap: key -> list of successors
    isMainThread,   \* the thread marker per path (setIsMainThread)
    calls,          \* the last two ThreadGraph methods a client called (SpecGraph)
    files,          \* vault: the markdown files, in getMarkdownFiles() order
    doc,            \* vault: path -> frontmatter of the file
    folders,        \* vault: the folders that exist
    folder,         \* settings.insertionFolder
    built,          \* onLayoutReady has run buildGraph
    clock,          \* the wall clock read by generateNoteName, in milliseconds
    ins,            \* the executeInsertion call in flight, or the last one
    walk,           \* the traversal query in progress, or the last one
    notified,       \* how often the notification callback (onGraphUpdate) was invoked
    det,            \* the EmptyLineObserver of one editor, with the editor's document
    pe              \* one ThreadView with the PropertyEditor it renders

vars == <<prevMap, nextMap, isMainThread, calls, files, doc, folders, folder,
          built, clock, ins, walk, notified, det, pe>>

graphVars == <<prevMap, nextMap, isMainThread>>
vaultVars == <<files, doc, folders, folder>>

\* JS null / undefined
NULL == "null"

----------------------------------------------------------------------------
(* Bounds *)

\* the last millisecond timestamp the clock can show, the first being 1
MaxClock == 2

\* the longest document the editor holds, in characters
MaxDocLen == 5

\* the user stops editing after this many onTrigger invocations
MaxFired == 2

\* the add-property command is run at most this often
MaxInvoked == 4

\* the debounce delay of the observer, in ticks of the model's clock
DebounceTicks == 2

\* the most lines a metadata block holds
MaxLines == 3

----------------------------------------------------------------------------
(* Paths and titles *)

\* titles of the notes a vault starts with
DocTitles3 == <<"A", "B", "C">>
DocTitles4 == <<"A", "B", "C", "D">>

\* a title no file has: the target of a dangling reference
DanglingTitle == "X"

\* generateNoteName: the timestamp of the clock, fixed width, so that
\* distinct clock values give distinct names
generateNoteName(now) == "N" \o ToString(now)

NoteTitles == {generateNoteName(t) : t \in 1..MaxClock}

AllTitles == {"A", "B", "C", "D", DanglingTitle} \cup NoteTitles

\* the folder setting: the vault root (default) or a named folder
Folders == {"", "T"}

\* createNote: normalizePath(`${folder}/${title}.md`) or `${title}.md`
notePath(dir, title) ==
    IF dir # "" THEN dir \o "/" \o title \o ".md" ELSE title \o ".md"

AllPaths == {notePath(d, t) : d \in Folders, t \in AllTitles}

\* TFile.basename: the file name without folder and extension
basename(path) == CHOOSE t \in AllTitles : \E d \in Folders : notePath(d, t) = path

\* the paths a client of the bare ThreadGraph uses
GraphPaths == {"A.md", "B.md", "C.md"}

\* the files of the three-note vault, in getMarkdownFiles() order
DocPaths3 == [i \in 1..Len(DocTitles3) |-> notePath("", DocTitles3[i])]

VaultPaths == {DocPaths3[i] : i \in 1..Len(DocPaths3)}

----------------------------------------------------------------------------
(* JS Map as a list of entries [k, v] in insertion order *)

MapHas(m, k) == \E i \in 1..Len(m) : m[i].k = k

MapIndex(m, k) == CHOOSE i \in 1..Len(m) : m[i].k = k

\* Map.get: undefined (NULL) when the key is absent
MapGet(m, k) == IF MapHas(m, k) THEN m[MapIndex(m, k)].v ELSE NULL

\* Map.set: an existing key keeps its position, a new key goes last
MapSet(m, k, v) ==
    IF MapHas(m, k)
    THEN [m EXCEPT ![MapIndex(m, k)] = [k |-> k, v |-> v]]
    ELSE Append(m, [k |-> k, v |-> v])

MapKeys(m) == [i \in 1..Len(m) |-> m[i].k]

SeqContains(s, x) == \E i \in 1..Len(s) : s[i] = x

\* the empty key -> value function
EmptyFn == [x \in {} |-> <<>>]

FnGet(f, k, default) == IF k \in DOMAIN f THEN f[k] ELSE default

FnSet(f, k, v) == [x \in (DOMAIN f) \cup {k} |-> IF x = k THEN v ELSE f[x]]

----------------------------------------------------------------------------
(* ThreadGraph *)

\* plausible bug: reads nextMap where prevMap is meant
getPrevFromNext(path) ==
    IF path \in DOMAIN nextMap /\ Len(nextMap[path]) > 0 THEN nextMap[path][1] ELSE NULL

\* getPrev: prevMap.get(path) ?? null
getPrev(path) == MapGet(prevMap, path)

\* getNext: nextMap.get(path) ?? []
getNext(path) == FnGet(nextMap, path, <<>>)

\* plausible bug: the entry is added without looking for the key
setPrevAppend(pm, path, prevPath) == Append(pm, [k |-> path, v |-> prevPath])

\* setPrev: prevMap.set(path, prevPath); the prevMap it leaves
setPrev(pm, path, prevPath) == MapSet(pm, path, prevPath)

\* hasNode: prevMap.has(path)
hasNode(path) == MapHas(prevMap, path)

\* getAllNodes: Array.from(prevMap.keys())
getAllNodes == MapKeys(prevMap)

\* the loop of buildNextMap from entry i on, acc the nextMap so far;
\* push appends to the list already stored for prevPath
RECURSIVE invertFrom(_, _, _)
invertFrom(pm, i, acc) ==
    IF i > Len(pm) THEN acc
    ELSE LET notePath_ == pm[i].k
             prevPath == pm[i].v
         IN  IF prevPath # NULL /\ prevPath # ""
             THEN invertFrom(pm, i + 1,
                      FnSet(acc, prevPath, Append(FnGet(acc, prevPath, <<>>), notePath_)))
             ELSE invertFrom(pm, i + 1, acc)

\* plausible bug: the list already stored for prevPath is dropped
RECURSIVE invertOverwriteFrom(_, _, _)
invertOverwriteFrom(pm, i, acc) ==
    IF i > Len(pm) THEN acc
    ELSE IF pm[i].v # NULL /\ pm[i].v # ""
         THEN invertOverwriteFrom(pm, i + 1, FnSet(acc, pm[i].v, <<pm[i].k>>))
         ELSE invertOverwriteFrom(pm, i + 1, acc)

\* plausible bug: unshift where push is meant, so successors come out reversed
RECURSIVE invertPrependFrom(_, _, _)
invertPrependFrom(pm, i, acc) ==
    IF i > Len(pm) THEN acc
    ELSE IF pm[i].v # NULL /\ pm[i].v # ""
         THEN invertPrependFrom(pm, i + 1,
                  FnSet(acc, pm[i].v, <<pm[i].k>> \o FnGet(acc, pm[i].v, <<>>)))
         ELSE invertPrependFrom(pm, i + 1, acc)

buildNextMapOverwrite(pm, nm) == invertOverwriteFrom(pm, 1, EmptyFn)

buildNextMapPrepend(pm, nm) == invertPrependFrom(pm, 1, EmptyFn)

\* plausible bug: nextMap.clear() is missing
buildNextMapNoClear(pm, nm) == invertFrom(pm, 1, nm)

\* buildNextMap: the nextMap it leaves, given prevMap and the old nextMap
buildNextMap(pm, nm) == invertFrom(pm, 1, EmptyFn)

\* setIsMainThread: upserts the marker of path; the marker map it leaves
setIsMainThread(im, path, flag) == FnSet(im, path, flag)

\* the marker of path, false when none was set
isMain(path) == FnGet(isMainThread, path, FALSE)

\* the first index of s whose element satisfies the marker, 0 when none does
FirstMain(s) ==
    IF \E i \in 1..Len(s) : isMain(s[i])
    THEN CHOOSE i \in 1..Len(s) : isMain(s[i]) /\ \A j \in 1..(i - 1) : ~isMain(s[j])
    ELSE 0

\* getMainContinuation: null when next(path) is empty, else the successor
\* marked main, else the first successor
getMainContinuation(path) ==
    LET nexts == getNext(path)
    IN  IF Len(nexts) = 0 THEN NULL
        ELSE IF FirstMain(nexts) # 0 THEN nexts[FirstMain(nexts)]
        ELSE nexts[1]

\* getReplies: next(path) without the main continuation
getReplies(path) ==
    LET nexts == getNext(path)
        main == getMainContinuation(path)
    IN  SelectSeq(nexts, LAMBDA n : n # main)

\* the node that at most k steps backward from path end in
RECURSIVE rootWithin(_, _)
rootWithin(path, k) ==
    IF k > 0 /\ getPrev(path) # NULL /\ getPrev(path) # ""
    THEN rootWithin(getPrev(path), k - 1)
    ELSE path

\* at most k nodes, following the main continuations from path
RECURSIVE forwardWithin(_, _)
forwardWithin(path, k) ==
    IF k <= 1 \/ getMainContinuation(path) = NULL THEN <<path>>
    ELSE <<path>> \o forwardWithin(getMainContinuation(path), k - 1)

\* the behaviour before the fix: the chain of a reply is its full thread,
\* walked back to the root first, so it repeats the parents of the reply
getChainFromRoot(path) ==
    forwardWithin(rootWithin(path, Len(prevMap)), Len(prevMap))

\* getChainFromNote: path followed by its main continuations, forward only
RECURSIVE getChainFromNote(_)
getChainFromNote(path) ==
    LET n == getMainContinuation(path)
    IN  IF n = NULL THEN <<path>> ELSE <<path>> \o getChainFromNote(n)

\* getReplyChains: one forward chain per reply, in the order of the replies
getReplyChains(path) ==
    LET replies == getReplies(path)
    IN  [i \in 1..Len(replies) |-> getChainFromNote(replies[i])]

----------------------------------------------------------------------------
(* Frontmatter values as the metadata cache holds them (parsed YAML) *)

YNull == [tag |-> "null"]

\* a string: name, with or without [[ ]] around it and |alias behind it
YStr(name, brackets, alias) ==
    [tag |-> "str", name |-> name, brackets |-> brackets, alias |-> alias]

YList(items) == [tag |-> "list", items |-> items]

\* a number other than 0
YNum == [tag |-> "num"]

\* a mapping; path and link are "" when it has no such key
YObj(path, link) == [tag |-> "obj", path |-> path, link |-> link]

\* what the unquoted line `prev: [[title]]` parses to: a list in a list
WikiValue(title) == YList(<<YList(<<YStr(title, FALSE, FALSE)>>)>>)

\* what the writers of this plugin put behind `prev: `
wikilink(title) == WikiValue(title)

\* extractStringValue: null (YNull) for a falsy value, the first element of
\* an array (recursively), the string itself
RECURSIVE extractStringValue(_)
extractStringValue(value) ==
    IF value.tag = "null" THEN YNull
    ELSE IF value.tag = "list"
         THEN IF Len(value.items) = 0 THEN YNull
              ELSE extractStringValue(value.items[1])
    ELSE IF value.tag = "str"
         THEN IF value.name = "" /\ ~value.brackets /\ ~value.alias THEN YNull ELSE value
    ELSE IF value.tag = "obj"
         THEN IF value.path # "" THEN YStr(value.path, FALSE, FALSE)
              ELSE IF value.link # "" THEN YStr(value.link, FALSE, FALSE)
              ELSE YNull
    ELSE YNull

\* extractPrevFromFrontmatter: null without a prev property
extractPrevFromFrontmatter(frontmatter) ==
    IF frontmatter.prev.tag = "null" THEN YNull
    ELSE extractStringValue(frontmatter.prev)

\* cleanWikilink: the text without [[ ]] and without |alias
cleanWikilink(link) == IF link.tag # "str" THEN "" ELSE link.name

\* metadataCache.getFirstLinkpathDest: the file the link text names, by
\* basename, or null
getFirstLinkpathDest(fs, linkpath) ==
    IF \E i \in 1..Len(fs) : basename(fs[i]) = linkpath
    THEN fs[CHOOSE i \in 1..Len(fs) :
                /\ basename(fs[i]) = linkpath
                /\ \A j \in 1..(i - 1) : basename(fs[j]) # linkpath]
    ELSE NULL

\* a file without a frontmatter block: every property reads undefined
NoFrontmatter == [prev |-> YNull, thread |-> FALSE]

\* metadataCache.getFileCache(file)?.frontmatter
getFrontmatter(d, path) == IF path \in DOMAIN d THEN d[path] ELSE NoFrontmatter

----------------------------------------------------------------------------
(* Graph builder *)

\* plausible bug: an unresolved link is stored as no predecessor
prevPathOfNoFallback(fs, d, path) ==
    LET prevLink == extractPrevFromFrontmatter(getFrontmatter(d, path))
    IN  IF prevLink.tag # "null"
        THEN getFirstLinkpathDest(fs, cleanWikilink(prevLink))
        ELSE NULL

\* the prev path buildGraph stores for one file
prevPathOf(fs, d, path) ==
    LET prevLink == extractPrevFromFrontmatter(getFrontmatter(d, path))
    IN  IF prevLink.tag # "null"
        THEN LET cleanedLink == cleanWikilink(prevLink)
                 targetFile == getFirstLinkpathDest(fs, cleanedLink)
             IN  IF targetFile # NULL THEN targetFile ELSE cleanedLink \o ".md"
        ELSE NULL

\* the thread marker buildGraph stores for one file: frontmatter.thread === true
isThreadOf(d, path) ==
    getFrontmatter(d, path).thread = TRUE

\* the loop of buildGraph over the files from index i on
RECURSIVE scanFiles(_, _, _, _)
scanFiles(fs, d, i, g) ==
    IF i > Len(fs) THEN g
    ELSE scanFiles(fs, d, i + 1,
             [prevMap |-> setPrev(g.prevMap, fs[i], prevPathOf(fs, d, fs[i])),
              isMainThread |-> setIsMainThread(g.isMainThread, fs[i], isThreadOf(d, fs[i]))])

\* plausible bug: graph.clear() is missing, the scan starts from the old graph
buildGraphNoClear(fs, d) ==
    LET g == scanFiles(fs, d, 1, [prevMap |-> prevMap, isMainThread |-> isMainThread])
    IN  [prevMap |-> g.prevMap,
         isMainThread |-> g.isMainThread,
         nextMap |-> buildNextMap(g.prevMap, nextMap)]

\* buildGraph: clear, scan every markdown file, buildNextMap
buildGraph(fs, d) ==
    LET g == scanFiles(fs, d, 1, [prevMap |-> <<>>, isMainThread |-> EmptyFn])
    IN  [prevMap |-> g.prevMap,
         isMainThread |-> g.isMainThread,
         nextMap |-> buildNextMap(g.prevMap, EmptyFn)]

\* onLayoutReady(() => buildGraph(app, graph))
BuildGraph ==
    /\ ~built
    /\ LET g == buildGraph(files, doc)
       IN  /\ prevMap' = g.prevMap
           /\ nextMap' = g.nextMap
           /\ isMainThread' = g.isMainThread
    /\ built' = TRUE
    /\ UNCHANGED <<calls, vaultVars, clock, ins, walk, notified, det, pe>>

----------------------------------------------------------------------------
(* Chain insertion service *)

\* currentPath.replace(/\.md$/, ''): the path without its extension
stripMd(path) ==
    IF \E t \in AllTitles, d \in Folders : notePath(d, t) = path
    THEN LET t == basename(path)
             d == CHOOSE dd \in Folders : notePath(dd, t) = path
         IN  IF d # "" THEN d \o "/" \o t ELSE t
    ELSE path

\* buildInsertionContext: the source, its title and its main continuation
buildInsertionContext(currentPath) ==
    LET sourceTitle == IF SeqContains(files, currentPath)
                       THEN basename(currentPath)
                       ELSE stripMd(currentPath)
        nextPath == getMainContinuation(currentPath)
    IN  [sourcePath |-> currentPath,
         sourceTitle |-> sourceTitle,
         nextPath |-> nextPath,
         isAppend |-> (nextPath = NULL)]

\* the frontmatter createNote writes: prev: [[sourceTitle]], thread: true
createdFrontmatter(context) == [prev |-> wikilink(context.sourceTitle), thread |-> TRUE]

\* plausible bug: the mutation names the source where the new note is meant
calculateMutationsToSource(context, created) ==
    IF ~context.isAppend /\ context.nextPath # NULL /\ context.nextPath # ""
    THEN << [targetPath |-> context.nextPath,
             property |-> "prev",
             value |-> wikilink(context.sourceTitle)] >>
    ELSE <<>>

\* calculateMutations: mid-chain, the next note's prev becomes the new note
calculateMutations(context, created) ==
    IF ~context.isAppend /\ context.nextPath # NULL /\ context.nextPath # ""
    THEN << [targetPath |-> context.nextPath,
             property |-> "prev",
             value |-> wikilink(created.title)] >>
    ELSE <<>>

\* applyMutation, from the content read to the content written: the named
\* property is set, the other properties are written back
applyMutation(content, mutation) ==
    IF mutation.property = "prev"
    THEN [content EXCEPT !.prev = mutation.value]
    ELSE content

\* plausible bug: buildNextMap is not called after the setPrev calls
updateGraphNoRebuild(context, created) ==
    IF context.isAppend
    THEN [prevMap |-> setPrev(prevMap, created.path, context.sourcePath),
          isMainThread |-> setIsMainThread(isMainThread, created.path, TRUE),
          nextMap |-> nextMap]
    ELSE [prevMap |-> setPrev(setPrev(prevMap, created.path, context.sourcePath),
                              context.nextPath, created.path),
          isMainThread |-> setIsMainThread(isMainThread, created.path, TRUE),
          nextMap |-> nextMap]

\* the setPrev calls that re-point every element of targets to newPath
RECURSIVE setPrevAll(_, _, _)
setPrevAll(pm, targets, newPath) ==
    IF Len(targets) = 0 THEN pm
    ELSE setPrevAll(setPrev(pm, targets[1], newPath), Tail(targets), newPath)

\* plausible bug: every successor of the source is re-pointed to the new note
updateGraphAllSuccessors(context, created) ==
    LET pm == setPrevAll(setPrev(prevMap, created.path, context.sourcePath),
                         getNext(context.sourcePath), created.path)
    IN  [prevMap |-> pm,
         isMainThread |-> setIsMainThread(isMainThread, created.path, TRUE),
         nextMap |-> buildNextMap(pm, nextMap)]

\* updateGraph: the graph it leaves
updateGraph(context, created) ==
    LET pm == IF context.isAppend
              THEN setPrev(prevMap, created.path, context.sourcePath)
              ELSE IF context.nextPath # NULL /\ context.nextPath # ""
                   THEN setPrev(setPrev(prevMap, created.path, context.sourcePath),
                                context.nextPath, created.path)
                   ELSE prevMap
        im == IF context.isAppend \/ (context.nextPath # NULL /\ context.nextPath # "")
              THEN setIsMainThread(isMainThread, created.path, TRUE)
              ELSE isMainThread
    IN  [prevMap |-> pm, isMainThread |-> im, nextMap |-> buildNextMap(pm, nextMap)]

----------------------------------------------------------------------------
(* Idle values of the two call records *)

IdleIns == [pc |-> "idle"]

IdleWalk == [pc |-> "idle"]

\* a ThreadView after its constructor: no React root, no thread data, the
\* trigger counter 0, no PropertyEditor mounted. invoked, closed and
\* afterClose are history: the triggerAddPropertyForm calls so far, whether
\* the form was closed by Cancel or Add, and whether the last
\* triggerAddPropertyForm call came after such a close
IdleView == [root |-> FALSE, loaded |-> FALSE, counter |-> 0,
             mounted |-> FALSE, prop |-> 0, isAdding |-> FALSE, lastTrigger |-> 0,
             invoked |-> 0, closed |-> FALSE, afterClose |-> FALSE]

\* an observer on an empty document that has seen no edit
IdleDet == [content |-> <<>>, debounceTimer |-> FALSE, triggered |-> FALSE,
            fired |-> 0, cleared |-> FALSE]

\* the last two client calls, c being the newest
Called(c) == IF Len(calls) < 2 THEN Append(calls, c) ELSE <<calls[2], c>>

LastCall == IF Len(calls) = 0 THEN "none" ELSE calls[Len(calls)]

----------------------------------------------------------------------------
(* SpecGraph: a client drives the bare ThreadGraph *)

InitGraph ==
    /\ prevMap = <<>>
    /\ nextMap = EmptyFn
    /\ isMainThread = EmptyFn
    /\ calls = <<>>
    /\ files = <<>>
    /\ doc = EmptyFn
    /\ folders = {}
    /\ folder = ""
    /\ built = FALSE
    /\ clock = 1
    /\ ins = IdleIns
    /\ walk = IdleWalk
    /\ notified = 0
    /\ det = IdleDet
    /\ pe = IdleView

\* graph.setPrev(path, prevPath)
SetPrev(path, prevPath) ==
    /\ prevMap' = setPrev(prevMap, path, prevPath)
    /\ calls' = Called("setPrev")
    /\ UNCHANGED <<nextMap, isMainThread, vaultVars, built, clock, ins, walk, notified, det, pe>>

\* graph.buildNextMap()
BuildNextMap ==
    /\ nextMap' = buildNextMap(prevMap, nextMap)
    /\ calls' = Called("buildNextMap")
    /\ UNCHANGED <<prevMap, isMainThread, vaultVars, built, clock, ins, walk, notified, det, pe>>

\* graph.clear()
Clear ==
    /\ prevMap' = <<>>
    /\ nextMap' = EmptyFn
    /\ isMainThread' = EmptyFn
    /\ calls' = Called("clear")
    /\ UNCHANGED <<vaultVars, built, clock, ins, walk, notified, det, pe>>

NextGraph ==
    \/ \E path \in GraphPaths, prevPath \in GraphPaths \cup {NULL} : SetPrev(path, prevPath)
    \/ BuildNextMap
    \/ Clear

SpecGraph == InitGraph /\ [][NextGraph]_vars

----------------------------------------------------------------------------
(* Claims about the bare ThreadGraph *)

\* C1: once buildNextMap has run after the last setPrev, every node X whose
\* getPrev(X) is a node Y is in getNext(Y).
C1_PrevImpliesNext ==
    LastCall = "buildNextMap" =>
        \A X \in GraphPaths :
            getPrev(X) # NULL => SeqContains(getNext(getPrev(X)), X)

\* C1 witness: buildNextMap has run on a fork, B and C both with prev = A.
C1_Witness ==
    /\ LastCall = "buildNextMap"
    /\ getPrev("B.md") = "A.md"
    /\ getPrev("C.md") = "A.md"
    /\ Len(getNext("A.md")) = 2

\* C10: a buildNextMap that directly follows a buildNextMap leaves nextMap,
\* successor order included, as it was.
C10_RebuildIdempotent ==
    [][(LastCall = "buildNextMap" /\ calls' = Called("buildNextMap"))
          => nextMap' = nextMap]_vars

\* C10 witness: buildNextMap was called twice in a row on a graph with a fork.
C10_Witness ==
    /\ calls = <<"buildNextMap", "buildNextMap">>
    /\ Len(getNext("A.md")) = 2

\* C18: once buildNextMap has run after the last setPrev, X is in
\* getNext(Y) exactly when getPrev(X) = Y, no successor list holds a node
\* twice, and no key of nextMap has a list that prevMap does not give it.
C18_NextIsInverseOfPrev ==
    LastCall = "buildNextMap" =>
        /\ \A X \in GraphPaths, Y \in GraphPaths :
               SeqContains(getNext(Y), X) <=> getPrev(X) = Y
        /\ \A Y \in GraphPaths :
               \A i \in 1..Len(getNext(Y)), j \in 1..Len(getNext(Y)) :
                   getNext(Y)[i] = getNext(Y)[j] => i = j
        /\ \A Y \in DOMAIN nextMap :
               /\ Y \in GraphPaths
               /\ \E X \in GraphPaths : getPrev(X) = Y

\* C18 witness: buildNextMap has run on a chain: C.prev = B, B.prev = A,
\* with A a node without predecessor and C without successor.
C18_Witness ==
    /\ LastCall = "buildNextMap"
    /\ getPrev("C.md") = "B.md" /\ getPrev("B.md") = "A.md" /\ getPrev("A.md") = NULL
    /\ hasNode("A.md")
    /\ getNext("A.md") = <<"B.md">> /\ getNext("B.md") = <<"C.md">>
    /\ "C.md" \notin DOMAIN nextMap

\* C19: setPrev(node, p) can be called in every state with every argument,
\* a second call with the same arguments changes nothing, and a setPrev
\* step leaves nextMap and the prev of all nodes but one as they are, with
\* at most one node more than before.
C19_SetPrevFrame ==
    /\ [](\A path \in GraphPaths, prevPath \in GraphPaths \cup {NULL} :
             /\ ENABLED SetPrev(path, prevPath)
             /\ setPrev(setPrev(prevMap, path, prevPath), path, prevPath)
                    = setPrev(prevMap, path, prevPath)
             /\ MapGet(setPrev(prevMap, path, prevPath), path) = prevPath)
    /\ [][(calls' = Called("setPrev")) =>
             /\ nextMap' = nextMap
             /\ isMainThread' = isMainThread
             /\ \E path \in GraphPaths :
                    /\ hasNode(path)'
                    /\ \A X \in GraphPaths \ {path} :
                           /\ getPrev(X)' = getPrev(X)
                           /\ hasNode(X)' = hasNode(X)
                    /\ Len(prevMap') = IF hasNode(path) THEN Len(prevMap)
                                        ELSE Len(prevMap) + 1]_vars

\* C19 witness: setPrev(B, C) was called on a graph whose successor lists
\* were built for B.prev = A: getNext(A) still lists B.
C19_Witness ==
    /\ LastCall = "setPrev"
    /\ getPrev("B.md") = "C.md"
    /\ getNext("A.md") = <<"B.md">>
    /\ getNext("C.md") = <<>>

----------------------------------------------------------------------------
(* SpecBuild: buildGraph on a vault whose prev metadata is well-formed,    *)
(* dangling, missing or malformed, over a graph a client has used before   *)

\* prev values that are references to the note X, which does not exist:
\* unquoted [[X]], "[[X]]", "[[X|alias]]", plain X, and a list of links
DanglingPrevValues ==
    {WikiValue(DanglingTitle),
     YStr(DanglingTitle, TRUE, FALSE),
     YStr(DanglingTitle, TRUE, TRUE),
     YList(<<YStr(DanglingTitle, TRUE, FALSE), YStr("A", TRUE, FALSE)>>)}

\* prev values that are missing or no reference at all: no prev key (or
\* null), the empty string, the empty list, a number, a mapping
MissingPrevValues == {YNull, YStr("", FALSE, FALSE), YList(<<>>), YNum, YObj("", "")}

\* prev values that are a link with the empty note name: "[[]]" and
\* "[[|alias]]". buildGraph treats them as references to resolve
BlankLinkValues == {YStr("", TRUE, FALSE), YStr("", TRUE, TRUE)}

BuildPrevValues ==
    {WikiValue("A")} \cup DanglingPrevValues \cup MissingPrevValues \cup BlankLinkValues

\* the node the earlier client of the graph set; D.md is not in the vault
PriorPaths == {"D.md"}

InitBuild ==
    /\ prevMap = <<>>
    /\ nextMap = EmptyFn
    /\ isMainThread = EmptyFn
    /\ calls = <<>>
    /\ files = DocPaths3
    /\ doc \in [VaultPaths -> [prev : BuildPrevValues, thread : {FALSE}]]
    /\ folders = {}
    /\ folder = ""
    /\ built = FALSE
    /\ clock = 1
    /\ ins = IdleIns
    /\ walk = IdleWalk
    /\ notified = 0
    /\ det = IdleDet
    /\ pe = IdleView

NextBuild ==
    \/ ~built /\ \E path \in PriorPaths, prevPath \in {"A.md", "D.md", NULL} :
                     SetPrev(path, prevPath)
    \/ ~built /\ BuildNextMap
    \/ BuildGraph

SpecBuild == InitBuild /\ [][NextBuild]_vars

\* C13: after buildGraph, a document whose prev refers to a note that does
\* not exist (X) is a node of the graph whose getPrev is the fallback path
\* X.md, the cleaned reference text plus the extension.
C13_DanglingReference ==
    built =>
        \A i \in 1..Len(files) :
            doc[files[i]].prev \in DanglingPrevValues =>
                /\ getPrev(files[i]) = DanglingTitle \o ".md"
                /\ hasNode(files[i])
                /\ ~SeqContains(files, getPrev(files[i]))

\* C13 witness: the graph was built from a vault where B refers to X as
\* "[[X|alias]]", and X.md is the predecessor of B without being a node.
C13_Witness ==
    /\ built
    /\ doc["B.md"].prev = YStr(DanglingTitle, TRUE, TRUE)
    /\ getPrev("B.md") = "X.md"
    /\ hasNode("B.md")
    /\ ~hasNode("X.md")

----------------------------------------------------------------------------
(* SpecQuery: a vault of four notes, buildGraph, and the traversal queries *)

DocPaths4 == [i \in 1..Len(DocTitles4) |-> notePath("", DocTitles4[i])]

\* the prev values a note of the query vault starts with: none, or a link
\* to one of the first three notes
QueryPrevValues == {YNull} \cup {WikiValue(DocTitles4[i]) : i \in 1..3}

QueryPaths == {DocPaths4[i] : i \in 1..Len(DocPaths4)}

InitQuery ==
    /\ prevMap = <<>>
    /\ nextMap = EmptyFn
    /\ isMainThread = EmptyFn
    /\ calls = <<>>
    /\ files = DocPaths4
    /\ doc \in [QueryPaths -> [prev : QueryPrevValues, thread : BOOLEAN]]
    /\ folders = {}
    /\ folder = ""
    /\ built = FALSE
    /\ clock = 1
    /\ ins = IdleIns
    /\ walk = IdleWalk
    /\ notified = 0
    /\ det = IdleDet
    /\ pe = IdleView

\* a view queries the graph once the layout is ready and no query is running
WalkFree == built /\ walk.pc \in {"idle", "done"}

\* getThreadRoot(path) is called: the backward walk starts at path
StartGetThreadRoot(path) ==
    /\ WalkFree
    /\ walk' = [pc |-> "back", op |-> "getThreadRoot", arg |-> path, cur |-> path,
                odd |-> FALSE, result |-> <<>>]
    /\ UNCHANGED <<graphVars, calls, vaultVars, built, clock, ins, notified, det, pe>>

\* getFullThread(path) is called: it starts with the backward walk to the root
StartGetFullThread(path) ==
    /\ WalkFree
    /\ walk' = [pc |-> "back", op |-> "getFullThread", arg |-> path, cur |-> path,
                odd |-> FALSE, result |-> <<>>]
    /\ UNCHANGED <<graphVars, calls, vaultVars, built, clock, ins, notified, det, pe>>

\* one iteration of the backward loop: move to the predecessor while there
\* is one (no visited set); at a node without predecessor the root is found
\* and the call returns, getFullThread after its forward walk from the root.
\* odd is the parity of the iterations done, so that an iteration that stays
\* on the same node (x.prev = x) is a step too
WalkBack ==
    /\ walk.pc = "back"
    /\ LET prev == getPrev(walk.cur)
       IN  IF prev # NULL /\ prev # ""
           THEN walk' = [walk EXCEPT !.cur = prev, !.odd = ~walk.odd]
           ELSE walk' = [walk EXCEPT
                            !.pc = "done",
                            !.result = IF walk.op = "getThreadRoot"
                                       THEN <<walk.cur>>
                                       ELSE getChainFromNote(walk.cur)]
    /\ UNCHANGED <<graphVars, calls, vaultVars, built, clock, ins, notified, det, pe>>

\* getReplyChains(path) is called and returns
GetReplyChains(path) ==
    /\ WalkFree
    /\ walk' = [pc |-> "done", op |-> "getReplyChains", arg |-> path, cur |-> path,
                odd |-> FALSE, result |-> getReplyChains(path)]
    /\ UNCHANGED <<graphVars, calls, vaultVars, built, clock, ins, notified, det, pe>>

\* file.stat.ctime: the vault's files are listed in the order of creation
ctime(path) == CHOOSE i \in 1..Len(files) : files[i] = path

\* the chains loaded from the vault: the paths that are files, a chain
\* without any loaded note being dropped
loadChains(chains) ==
    SelectSeq([i \in 1..Len(chains) |->
                  SelectSeq(chains[i], LAMBDA p : SeqContains(files, p))],
              LAMBDA c : Len(c) > 0)

\* replyChains.sort by the ctime of the first note: chain c put into the
\* sorted list, behind the chains that are not younger
RECURSIVE insertByCtime(_, _)
insertByCtime(sorted, c) ==
    IF Len(sorted) = 0 THEN <<c>>
    ELSE IF ctime(c[1]) < ctime(Head(sorted)[1]) THEN <<c>> \o sorted
    ELSE <<Head(sorted)>> \o insertByCtime(Tail(sorted), c)

RECURSIVE sortByCtime(_)
sortByCtime(chains) ==
    IF Len(chains) = 0 THEN <<>>
    ELSE insertByCtime(sortByCtime(SubSeq(chains, 1, Len(chains) - 1)),
                       chains[Len(chains)])

\* loadAndRender once graph.getFullThread(path) has returned mainChainPaths:
\* the thread data the view renders
threadDataOf(path, mainChainPaths) ==
    [mainChain |-> SelectSeq(mainChainPaths, LAMBDA p : SeqContains(files, p)),
     replyChains |-> sortByCtime(loadChains(getReplyChains(path))),
     currentPath |-> path]

\* the view's loadAndRender after its getFullThread call has returned
LoadAndRender ==
    /\ walk.pc = "done"
    /\ walk.op = "getFullThread"
    /\ walk' = [walk EXCEPT !.op = "loadAndRender",
                            !.result = threadDataOf(walk.arg, walk.result)]
    /\ UNCHANGED <<graphVars, calls, vaultVars, built, clock, ins, notified, det, pe>>

NextQuery ==
    \/ BuildGraph
    \/ LoadAndRender
    \/ \E path \in QueryPaths : StartGetThreadRoot(path)
    \/ \E path \in QueryPaths : StartGetFullThread(path)
    \/ \E path \in QueryPaths : GetReplyChains(path)
    \/ WalkBack

SpecQuery == InitQuery /\ [][NextQuery]_vars

\* the JS thread keeps running a loop it is in
FairSpecQuery == SpecQuery /\ WF_vars(WalkBack)

----------------------------------------------------------------------------
(* The prev mapping as data, for stating what the queries must return *)

\* the stored predecessor of x, read off the entries of prevMap
RawPrev(x) == MapGet(prevMap, x)

\* k steps backward from x, NULL once there is no predecessor
RECURSIVE PrevIter(_, _)
PrevIter(x, k) ==
    IF k = 0 THEN x
    ELSE IF PrevIter(x, k - 1) = NULL THEN NULL
    ELSE RawPrev(PrevIter(x, k - 1))

GraphNodes == ({prevMap[i].k : i \in 1..Len(prevMap)} \cup
               {prevMap[i].v : i \in 1..Len(prevMap)}) \ {NULL}

\* no node is its own ancestor
Acyclic ==
    \A x \in GraphNodes : \A k \in 1..Cardinality(GraphNodes) : PrevIter(x, k) # x

\* r is the node without predecessor that the backward path from x ends in
IsRootOf(r, x) ==
    /\ RawPrev(r) = NULL
    /\ \E k \in 0..Cardinality(GraphNodes) : PrevIter(x, k) = r

\* the nodes whose stored predecessor in pm is y, in the insertion order of pm
RawSuccessorsIn(pm, y) == SelectSeq(MapKeys(pm), LAMBDA x : MapGet(pm, x) = y)

\* the nodes whose stored predecessor is y, in the insertion order of prevMap
RawSuccessors(y) == RawSuccessorsIn(prevMap, y)

\* the scenario of the spec's examples: main line A -> B -> C, and D a
\* reply of B that is not marked main
MainLineWithReply ==
    /\ built
    /\ RawPrev("A.md") = NULL
    /\ RawPrev("B.md") = "A.md"
    /\ RawPrev("C.md") = "B.md"
    /\ RawPrev("D.md") = "B.md"
    /\ ~isMain("D.md")

----------------------------------------------------------------------------
(* Claims about the traversal queries *)

\* C5: getMainContinuation(B) is null when B has no successor; otherwise it
\* is a successor marked main if B has one (also when an unmarked successor
\* was inserted earlier), and the successor inserted first when none is marked.
C5_MainContinuationTieBreak ==
    built =>
        \A B \in QueryPaths :
            LET succ == RawSuccessors(B)
                main == getMainContinuation(B)
            IN  /\ Len(succ) = 0 => main = NULL
                /\ Len(succ) > 0 =>
                       IF \E i \in 1..Len(succ) : isMain(succ[i])
                       THEN SeqContains(succ, main) /\ isMain(main)
                       ELSE main = succ[1]

\* C5 witness: B has the successors C (unmarked, first) and D (marked main,
\* second), and its main continuation is D.
C5_Witness ==
    /\ built
    /\ RawSuccessors("B.md") = <<"C.md", "D.md">>
    /\ ~isMain("C.md") /\ isMain("D.md")
    /\ getMainContinuation("B.md") = "D.md"

\* C6: on an acyclic prev mapping, getThreadRoot(X) returns the node without
\* predecessor that following prev backward from X ends in; for the chain
\* C.prev = B, B.prev = A, A.prev = null, getThreadRoot(C) = A.
C6_ThreadRoot ==
    (walk.pc = "done" /\ walk.op = "getThreadRoot" /\ Acyclic) =>
        /\ Len(walk.result) = 1
        /\ IsRootOf(walk.result[1], walk.arg)
        /\ (RawPrev("C.md") = "B.md" /\ RawPrev("B.md") = "A.md"
              /\ RawPrev("A.md") = NULL /\ walk.arg = "C.md")
           => walk.result[1] = "A.md"

\* C6 witness: getThreadRoot(C) has returned on the chain A <- B <- C.
C6_Witness ==
    /\ walk.pc = "done" /\ walk.op = "getThreadRoot" /\ walk.arg = "C.md"
    /\ RawPrev("C.md") = "B.md" /\ RawPrev("B.md") = "A.md" /\ RawPrev("A.md") = NULL
    /\ Acyclic
    /\ walk.result = <<"A.md">>

\* the main continuation of x read off prevMap and the markers alone
RawMain(x) ==
    LET succ == RawSuccessors(x)
    IN  IF Len(succ) = 0 THEN NULL
        ELSE IF \E i \in 1..Len(succ) : isMain(succ[i])
             THEN succ[CHOOSE i \in 1..Len(succ) :
                         isMain(succ[i]) /\ \A j \in 1..(i - 1) : ~isMain(succ[j])]
             ELSE succ[1]

\* C7: getFullThread(X) starts at the thread root of X and continues with
\* the main continuation of each element until there is none; with main line
\* A -> B -> C and D a non-main reply of B, getFullThread(C) = [A, B, C].
C7_FullThread ==
    (walk.pc = "done" /\ walk.op = "getFullThread") =>
        LET r == walk.result
        IN  /\ Len(r) >= 1
            /\ IsRootOf(r[1], walk.arg)
            /\ \A i \in 1..(Len(r) - 1) : r[i + 1] = RawMain(r[i])
            /\ RawMain(r[Len(r)]) = NULL
            /\ (MainLineWithReply /\ walk.arg = "C.md" /\ RawMain("B.md") = "C.md")
               => r = <<"A.md", "B.md", "C.md">>

\* C7 witness: getFullThread(C) returned [A, B, C] with D a reply of B.
C7_Witness ==
    /\ walk.pc = "done" /\ walk.op = "getFullThread" /\ walk.arg = "C.md"
    /\ MainLineWithReply
    /\ walk.result = <<"A.md", "B.md", "C.md">>

\* C8: with main line A -> B -> C and D a non-main reply of B without
\* successors, getReplyChains(B) returns exactly one chain, [D].
C8_ReplyChains ==
    (walk.pc = "done" /\ walk.op = "getReplyChains" /\ walk.arg = "B.md"
       /\ MainLineWithReply /\ RawMain("B.md") = "C.md"
       /\ Len(RawSuccessors("D.md")) = 0)
    => walk.result = << <<"D.md">> >>

\* C8 witness: getReplyChains(B) has returned in that scenario.
C8_Witness ==
    /\ walk.pc = "done" /\ walk.op = "getReplyChains" /\ walk.arg = "B.md"
    /\ MainLineWithReply /\ RawMain("B.md") = "C.md"
    /\ Len(walk.result) = 1

\* C20: getReplies(N) holds the nodes whose prev is N except the main
\* continuation of N, each once: the main continuation is not among them,
\* every other successor is, and for a node with successors the replies are
\* one fewer than the successors.
C20_RepliesAreNextMinusMain ==
    built =>
        \A N \in QueryPaths :
            LET replies == getReplies(N)
                succ == RawSuccessors(N)
            IN  /\ ~SeqContains(replies, getMainContinuation(N))
                /\ \A X \in QueryPaths :
                       SeqContains(replies, X) <=>
                           (RawPrev(X) = N /\ X # RawMain(N))
                /\ Len(succ) > 0 => Len(replies) = Len(succ) - 1
                /\ Len(succ) = 0 => replies = <<>>
                /\ replies = SelectSeq(succ, LAMBDA X : X # RawMain(N))

\* C20 witness: A has the successors B, C and D, C is marked main, and the
\* replies of A are B and D.
C20_Witness ==
    /\ built
    /\ RawSuccessors("A.md") = <<"B.md", "C.md", "D.md">>
    /\ getMainContinuation("A.md") = "C.md"
    /\ getReplies("A.md") = <<"B.md", "D.md">>

RawReplies(N) == SelectSeq(RawSuccessors(N), LAMBDA X : X # RawMain(N))

C9_WalkTerminates == (walk.pc = "back") ~> (walk.pc = "done")

----------------------------------------------------------------------------
(* Spec: the plugin. A vault of three notes, buildGraph on layout ready,   *)
(* and executeInsertion calls that do not overlap (one call record).       *)

\* the prev values a note of the vault starts with: none, or a link to a
\* note of the vault (itself included)
VaultPrevValues ==
    {YNull} \cup {WikiValue(DocTitles3[i]) : i \in 1..Len(DocTitles3)}

Init ==
    /\ prevMap = <<>>
    /\ nextMap = EmptyFn
    /\ isMainThread = EmptyFn
    /\ calls = <<>>
    /\ files = DocPaths3
    /\ doc \in [VaultPaths -> [prev : VaultPrevValues, thread : BOOLEAN]]
    /\ folders = {}
    /\ folder \in Folders
    /\ built = FALSE
    /\ clock = 1
    /\ ins = IdleIns
    /\ walk = IdleWalk
    /\ notified = 0
    /\ det = IdleDet
    /\ pe = IdleView

\* the wall clock advances by a millisecond. The clock is read only when a
\* call starts and its value is only compared with the names in the vault,
\* so the model lets it advance between calls, once its timestamp is taken
Tick ==
    /\ built
    /\ ins.pc \in {"idle", "done", "failed"}
    /\ \E d \in Folders : SeqContains(files, notePath(d, generateNoteName(clock)))
    /\ clock < MaxClock
    /\ clock' = clock + 1
    /\ UNCHANGED <<graphVars, calls, vaultVars, built, ins, walk, notified, det, pe>>

\* the index of the first mutation from i on whose target is a file
\* (applyMutation returns at once for a target that is no file)
RECURSIVE firstReadable(_, _, _)
firstReadable(mutations, i, fs) ==
    IF i > Len(mutations) THEN i
    ELSE IF SeqContains(fs, mutations[i].targetPath) THEN i
    ELSE firstReadable(mutations, i + 1, fs)

\* an awaited vault call rejects: nothing in executeInsertion, createNote,
\* applyMutations or applyMutation catches, so the error leaves
\* executeInsertion at the await of that step
rejected(call, step) == [call EXCEPT !.pc = "failed", !.step = step]

\* executeInsertion(currentPath) up to its first await: the context is
\* built, the note name is taken from the clock, and createNote awaits
\* createFolder when the configured folder is missing, else vault.create
StartInsertion(currentPath) ==
    /\ built
    /\ ins.pc \in {"idle", "done", "failed"}
    /\ LET context == buildInsertionContext(currentPath)
           title == generateNoteName(clock)
       IN  ins' = [pc |-> IF folder # "" /\ folder \notin folders
                          THEN "createFolder" ELSE "create",
                   ctx |-> context,
                   created |-> [path |-> notePath(folder, title), title |-> title],
                   mutations |-> <<>>,
                   applied |-> 0,
                   content |-> NoFrontmatter,
                   step |-> "none",
                   pre |-> [prevMap |-> prevMap, doc |-> doc, files |-> files,
                            replies |-> getReplies(currentPath)]]
    /\ UNCHANGED <<graphVars, calls, vaultVars, built, clock, walk, notified, det, pe>>

\* vault.createFolder resolves; createNote goes on to await vault.create
FolderCreated ==
    /\ ins.pc = "createFolder"
    /\ folders' = folders \cup {folder}
    /\ ins' = [ins EXCEPT !.pc = "create"]
    /\ UNCHANGED <<graphVars, calls, files, doc, folder, built, clock, walk, notified, det, pe>>

\* plausible bug: updateGraph is called right after createNote, before the
\* mutations are applied
NoteCreatedGraphFirst ==
    /\ ins.pc = "create"
    /\ IF SeqContains(files, ins.created.path)
       THEN /\ ins' = rejected(ins, "create")
            /\ UNCHANGED <<files, doc, graphVars>>
       ELSE /\ files' = Append(files, ins.created.path)
            /\ doc' = FnSet(doc, ins.created.path, createdFrontmatter(ins.ctx))
            /\ LET g == updateGraph(ins.ctx, ins.created)
               IN  /\ prevMap' = g.prevMap
                   /\ isMainThread' = g.isMainThread
                   /\ nextMap' = g.nextMap
            /\ LET mutations == calculateMutations(ins.ctx, ins.created)
                   i == firstReadable(mutations, 1, files')
               IN  ins' = [ins EXCEPT
                              !.mutations = mutations,
                              !.applied = i,
                              !.pc = IF i > Len(mutations) THEN "update" ELSE "read"]
    /\ UNCHANGED <<calls, folders, folder, built, clock, walk, notified, det, pe>>

\* vault.create settles. It rejects when the path exists, and the error
\* leaves executeInsertion. Otherwise the note is in the vault, the
\* mutations are calculated and applyMutations reads its first target
NoteCreated ==
    /\ ins.pc = "create"
    /\ IF SeqContains(files, ins.created.path)
       THEN /\ ins' = rejected(ins, "create")
            /\ UNCHANGED <<files, doc>>
       ELSE /\ files' = Append(files, ins.created.path)
            /\ doc' = FnSet(doc, ins.created.path, createdFrontmatter(ins.ctx))
            /\ LET mutations == calculateMutations(ins.ctx, ins.created)
                   i == firstReadable(mutations, 1, files')
               IN  ins' = [ins EXCEPT
                              !.mutations = mutations,
                              !.applied = i,
                              !.pc = IF i > Len(mutations) THEN "update" ELSE "read"]
    /\ UNCHANGED <<graphVars, calls, folders, folder, built, clock, walk, notified, det, pe>>

\* vault.read of the target resolves; applyMutation rewrites the
\* frontmatter and awaits vault.modify
TargetRead ==
    /\ ins.pc = "read"
    /\ LET mutation == ins.mutations[ins.applied]
       IN  ins' = [ins EXCEPT
                      !.content = applyMutation(getFrontmatter(doc, mutation.targetPath),
                                                mutation),
                      !.pc = "modify"]
    /\ UNCHANGED <<graphVars, calls, vaultVars, built, clock, walk, notified, det, pe>>

\* vault.modify resolves; applyMutations goes on to its next target
TargetModified ==
    /\ ins.pc = "modify"
    /\ LET mutation == ins.mutations[ins.applied]
           i == firstReadable(ins.mutations, ins.applied + 1, files)
       IN  /\ doc' = FnSet(doc, mutation.targetPath, ins.content)
           /\ ins' = [ins EXCEPT
                         !.applied = i,
                         !.pc = IF i > Len(ins.mutations) THEN "update" ELSE "read"]
    /\ UNCHANGED <<graphVars, calls, files, folders, folder, built, clock, walk, notified, det, pe>>

\* plausible bug: a catch block that deletes the created note again
StoreRejectedRollback ==
    /\ ins.pc \in {"createFolder", "create", "read", "modify"}
    /\ ins' = rejected(ins, ins.pc)
    /\ files' = IF ins.pc \in {"read", "modify"}
                THEN SelectSeq(files, LAMBDA f : f # ins.created.path)
                ELSE files
    /\ UNCHANGED <<graphVars, calls, doc, folders, folder, built, clock, walk, notified, det, pe>>

\* the vault rejects the call executeInsertion is awaiting (createFolder,
\* create, read or modify): the store is left as it is and the error is
\* thrown to the caller of executeInsertion
StoreRejected ==
    /\ ins.pc \in {"createFolder", "create", "read", "modify"}
    /\ ins' = rejected(ins, ins.pc)
    /\ UNCHANGED <<graphVars, calls, vaultVars, built, clock, walk, notified, det, pe>>

\* applyMutations has resolved: updateGraph, onGraphUpdate, return created
GraphUpdated ==
    /\ ins.pc = "update"
    /\ LET g == updateGraph(ins.ctx, ins.created)
       IN  /\ prevMap' = g.prevMap
           /\ isMainThread' = g.isMainThread
           /\ nextMap' = g.nextMap
    /\ notified' = notified + 1
    /\ ins' = [ins EXCEPT !.pc = "done"]
    /\ UNCHANGED <<calls, vaultVars, built, clock, walk, det, pe>>

Next ==
    \/ BuildGraph
    \/ Tick
    \/ \E currentPath \in AllPaths :
          SeqContains(files, currentPath) /\ StartInsertion(currentPath)
    \/ FolderCreated
    \/ NoteCreated
    \/ TargetRead
    \/ TargetModified
    \/ StoreRejected
    \/ GraphUpdated

Spec == Init /\ [][Next]_vars

----------------------------------------------------------------------------
(* Claims about chain insertion *)

\* the last executeInsertion call has returned its created note
InsertionDone == ins.pc = "done"

\* C2: a completed executeInsertion(A) on a graph where B is the main
\* continuation of A creates a new node N, produces exactly the one mutation
\* B.prev := N, and leaves getMainContinuation(A) = N and
\* getMainContinuation(N) = B.
C2_MidChainInsertion ==
    (InsertionDone /\ ~ins.ctx.isAppend) =>
        LET A == ins.ctx.sourcePath
            B == ins.ctx.nextPath
            N == ins.created.path
        IN  /\ hasNode(N) /\ ~MapHas(ins.pre.prevMap, N)
            /\ ins.mutations = << [targetPath |-> B, property |-> "prev",
                                   value |-> wikilink(ins.created.title)] >>
            /\ getMainContinuation(A) = N
            /\ getMainContinuation(N) = B

\* C3: a completed executeInsertion(A) on a graph where A has no successor
\* creates a new node N with prev(N) = A and isMain(N) = true, produces no
\* metadata mutation (no note that existed is rewritten), and leaves
\* getMainContinuation(A) = N.
C3_AppendInsertion ==
    (InsertionDone /\ Len(RawSuccessorsIn(ins.pre.prevMap, ins.ctx.sourcePath)) = 0) =>
        LET A == ins.ctx.sourcePath
            N == ins.created.path
        IN  /\ hasNode(N) /\ ~MapHas(ins.pre.prevMap, N)
            /\ RawPrev(N) = A
            /\ isMain(N)
            /\ ins.mutations = <<>>
            /\ \A i \in 1..Len(ins.pre.files) :
                   doc[ins.pre.files[i]] = ins.pre.doc[ins.pre.files[i]]
            /\ getMainContinuation(A) = N

\* C3 witness: an insertion after a note without successors has completed.
C3_Witness ==
    /\ InsertionDone
    /\ Len(RawSuccessorsIn(ins.pre.prevMap, ins.ctx.sourcePath)) = 0
    /\ getMainContinuation(ins.ctx.sourcePath) = ins.created.path

\* C4: when A has the main continuation B and at least one reply, a
\* completed executeInsertion(A) changes the predecessor of the new note N
\* and of B only: every reply of A still has prev = A, and every other note
\* that existed keeps its prev, in the graph and in the vault.
C4_RepliesUntouched ==
    (InsertionDone /\ ~ins.ctx.isAppend /\ Len(ins.pre.replies) > 0) =>
        LET A == ins.ctx.sourcePath
            B == ins.ctx.nextPath
            N == ins.created.path
        IN  /\ \A i \in 1..Len(ins.pre.replies) : RawPrev(ins.pre.replies[i]) = A
            /\ \A i \in 1..Len(ins.pre.prevMap) :
                   ins.pre.prevMap[i].k # B =>
                       RawPrev(ins.pre.prevMap[i].k) = ins.pre.prevMap[i].v
            /\ \A i \in 1..Len(ins.pre.files) :
                   ins.pre.files[i] # B =>
                       doc[ins.pre.files[i]] = ins.pre.doc[ins.pre.files[i]]
            /\ RawPrev(B) = N
            /\ prevPathOf(files, doc, B) = N
            /\ RawPrev(N) = A

\* C4 witness: an insertion after a note with a main continuation and a
\* reply has completed.
C4_Witness ==
    /\ InsertionDone
    /\ ~ins.ctx.isAppend
    /\ Len(ins.pre.replies) > 0
    /\ ins.ctx.nextPath # ins.ctx.sourcePath
    /\ RawPrev(ins.pre.replies[1]) = ins.ctx.sourcePath
    /\ RawPrev(ins.ctx.nextPath) = ins.created.path

\* C11: when the vault rejects the folder creation, the note creation or a
\* read/write of a mutation target, executeInsertion fails at that step:
\* the failing step and every later step of the failed call leave the vault
\* as it is (no rollback, no retry, no completion), so the folder and the
\* note already created are still in the vault, with every earlier note.
C11_StorageFailure ==
    /\ [](ins.pc = "failed" =>
            /\ ins.step \in {"createFolder", "create", "read", "modify"}
            /\ (ins.step \in {"read", "modify"}) =>
                   /\ SeqContains(files, ins.created.path)
                   /\ doc[ins.created.path] = createdFrontmatter(ins.ctx)
            /\ (folder # "" /\ ins.step # "createFolder") => folder \in folders
            /\ \A i \in 1..Len(ins.pre.files) :
                   /\ SeqContains(files, ins.pre.files[i])
                   /\ doc[ins.pre.files[i]] = ins.pre.doc[ins.pre.files[i]])
    /\ [][/\ (ins.pc # "failed" /\ ins'.pc = "failed") =>
                  /\ ins'.step = ins.pc
                  /\ vaultVars' = vaultVars
          /\ (ins.pc = "failed") =>
                  /\ vaultVars' = vaultVars
                  /\ (ins' = ins \/ ins'.step = "none")]_vars

\* C11 witness: vault.modify of the next note was rejected after the new
\* note had been created; the call has failed and the new note is in the vault.
C11_Witness ==
    /\ ins.pc = "failed"
    /\ ins.step = "modify"
    /\ SeqContains(files, ins.created.path)
    /\ ~SeqContains(ins.pre.files, ins.created.path)
    /\ prevPathOf(files, doc, ins.ctx.nextPath) # ins.created.path

\* calculateMutations of the call in flight has returned
MutationsCalculated == ins.pc \in {"read", "modify", "update", "done"}

\* the file a frontmatter value refers to, as buildGraph resolves it
resolveValue(value) ==
    getFirstLinkpathDest(files, cleanWikilink(extractStringValue(value)))

\* C22: the context has isAppend exactly when nextPath is null, which is
\* exactly when the source has no successor; calculateMutations returns no
\* mutation for an append and exactly one mid-chain, and that one targets
\* nextPath, names the property prev, and its value is the wikilink of the
\* created note's title, which resolves to the created note.
C22_OneMutationMidChain ==
    MutationsCalculated =>
        LET context == ins.ctx
            m == ins.mutations
        IN  /\ context.isAppend <=> (context.nextPath = NULL)
            /\ context.isAppend <=>
                   (Len(RawSuccessorsIn(ins.pre.prevMap, context.sourcePath)) = 0)
            /\ context.isAppend => m = <<>>
            /\ ~context.isAppend =>
                   /\ Len(m) = 1
                   /\ m[1].targetPath = context.nextPath
                   /\ SeqContains(RawSuccessorsIn(ins.pre.prevMap, context.sourcePath),
                                  m[1].targetPath)
                   /\ m[1].property = "prev"
                   /\ resolveValue(m[1].value) = ins.created.path
                   /\ ~SeqContains(ins.pre.files, resolveValue(m[1].value))

\* C22 witness: mid-chain insertion into the folder T; the one mutation
\* targets the former main continuation and was written to it.
C22_Witness ==
    /\ ins.pc = "done"
    /\ ~ins.ctx.isAppend
    /\ folder = "T"
    /\ Len(ins.mutations) = 1
    /\ ins.mutations[1].targetPath = ins.ctx.nextPath
    /\ ins.ctx.nextPath # ins.ctx.sourcePath
    /\ doc[ins.ctx.nextPath].prev = ins.mutations[1].value
    /\ resolveValue(ins.mutations[1].value) = ins.created.path

\* nextMap is the inverse of prevMap: the successor list of every node is
\* the list of the nodes whose stored predecessor it is, and no other key
\* has a list
NextInvertsPrev ==
    /\ \A y \in GraphNodes : getNext(y) = RawSuccessors(y)
    /\ \A y \in DOMAIN nextMap : y \in GraphNodes /\ Len(nextMap[y]) > 0

\* C23: in the state a completed executeInsertion leaves, append or
\* mid-chain, prev(created) = source and isMain(created) = true; mid-chain,
\* prev(nextPath) = created as well; and next is the inverse of prev.
C23_UpdateGraph ==
    InsertionDone =>
        LET context == ins.ctx
            created == ins.created
        IN  /\ RawPrev(created.path) = context.sourcePath
            /\ isMain(created.path)
            /\ ~context.isAppend => RawPrev(context.nextPath) = created.path
            /\ NextInvertsPrev
            /\ SeqContains(getNext(context.sourcePath), created.path)
            /\ ~context.isAppend => getNext(created.path) = <<context.nextPath>>
            /\ context.isAppend => getNext(created.path) = <<>>

\* C23 witness: a mid-chain insertion has completed; the new note is a
\* successor of the source and the only predecessor of the former main
\* continuation, which is no successor of the source any more.
C23_Witness ==
    /\ InsertionDone
    /\ ~ins.ctx.isAppend
    /\ ins.ctx.nextPath # ins.ctx.sourcePath
    /\ RawPrev(ins.ctx.nextPath) = ins.created.path
    /\ getNext(ins.created.path) = <<ins.ctx.nextPath>>
    /\ ~SeqContains(getNext(ins.ctx.sourcePath), ins.ctx.nextPath)
    /\ isMain(ins.created.path)

\* the order in which one executeInsertion call passes its awaits
StepOrder ==
    {<<"idle", "createFolder">>, <<"idle", "create">>,
     <<"done", "createFolder">>, <<"done", "create">>,
     <<"failed", "createFolder">>, <<"failed", "create">>,
     <<"createFolder", "create">>, <<"createFolder", "failed">>,
     <<"create", "read">>, <<"create", "update">>, <<"create", "failed">>,
     <<"read", "modify">>, <<"read", "failed">>,
     <<"modify", "read">>, <<"modify", "update">>, <<"modify", "failed">>,
     <<"update", "done">>}

\* C24: executeInsertion passes Context, Created, Mutated, Graph-updated,
\* Notified in this order. From the start of a call until its graph update
\* the graph is the one the call found; the graph update comes when the note
\* is in the vault and every mutation is written; the callback runs in the
\* step of the graph update, on the updated graph; a call that fails in
\* creation or mutation leaves the graph as the call found it and does not
\* notify.
C24_StepOrder ==
    /\ [](ins.pc \in {"createFolder", "create", "read", "modify", "update", "failed"}
            => prevMap = ins.pre.prevMap)
    /\ [](ins.pc = "update" =>
            /\ SeqContains(files, ins.created.path)
            /\ doc[ins.created.path] = createdFrontmatter(ins.ctx)
            /\ \A i \in 1..Len(ins.mutations) :
                   SeqContains(files, ins.mutations[i].targetPath) =>
                       doc[ins.mutations[i].targetPath].prev = ins.mutations[i].value)
    /\ [][/\ (ins'.pc # ins.pc) => <<ins.pc, ins'.pc>> \in StepOrder
          /\ (graphVars' # graphVars) =>
                 \/ ~built /\ built'
                 \/ ins.pc = "update" /\ ins'.pc = "done"
          /\ (notified' # notified) =>
                 /\ ins.pc = "update" /\ ins'.pc = "done"
                 /\ prevMap' = updateGraph(ins.ctx, ins.created).prevMap
                 /\ nextMap' = updateGraph(ins.ctx, ins.created).nextMap
                 /\ isMainThread' = updateGraph(ins.ctx, ins.created).isMainThread
          /\ (ins'.pc = "failed") =>
                 /\ graphVars' = graphVars
                 /\ notified' = notified]_vars

\* C24 witness: the call created its note and failed writing the mutation;
\* the graph is the one the call found, without the new note, and there
\* was no notification.
C24_Witness ==
    /\ ins.pc = "failed"
    /\ ins.step \in {"read", "modify"}
    /\ SeqContains(files, ins.created.path)
    /\ prevMap = ins.pre.prevMap
    /\ ~hasNode(ins.created.path)
    /\ RawPrev(ins.ctx.nextPath) = ins.ctx.sourcePath
    /\ notified = 0

\* the prev mapping pm is the one buildGraph would build from the files fs
\* with the frontmatter d: the same nodes, each with the same predecessor
PrevAgrees(pm, fs, d) ==
    LET g == buildGraph(fs, d)
    IN  /\ {pm[i].k : i \in 1..Len(pm)} = {g.prevMap[i].k : i \in 1..Len(g.prevMap)}
        /\ \A i \in 1..Len(g.prevMap) : MapGet(pm, g.prevMap[i].k) = g.prevMap[i].v

\* the markers of the graph are those buildGraph would build from the vault
MarkersAgree ==
    LET g == buildGraph(files, doc)
    IN  \A i \in 1..Len(files) :
           isMain(files[i]) = FnGet(g.isMainThread, files[i], FALSE)

C12_NotifiedOnce ==
    [][/\ (ins.pc # "done" /\ ins'.pc = "done") => notified' = notified + 1
       /\ (~built /\ built') => notified' = notified + 1
       /\ (ins.pc # "failed" /\ ins'.pc = "failed") => notified' = notified
       /\ (notified' # notified) =>
              \/ ins.pc # "done" /\ ins'.pc = "done"
              \/ ~built /\ built']_vars

----------------------------------------------------------------------------
(* SpecConc: two executeInsertion calls in flight at once. Nothing queues  *)
(* or locks the calls: a second trigger may start a call while the first   *)
(* is suspended at an await. ins holds one call record per call.           *)

Calls == {1, 2}

\* executeInsertion(currentPath) of call c up to its first await (the
\* insertion folder is the vault root, so createNote awaits vault.create).
\* Call 2 is the one that starts second
ConcStartInsertion(c, currentPath) ==
    /\ built
    /\ ins[c].pc = "idle"
    /\ c = 2 => ins[1].pc # "idle"
    /\ LET context == buildInsertionContext(currentPath)
           title == generateNoteName(clock)
       IN  ins' = [ins EXCEPT ![c] =
                      [pc |-> "create",
                       ctx |-> context,
                       created |-> [path |-> notePath(folder, title), title |-> title],
                       mutations |-> <<>>,
                       applied |-> 0,
                       content |-> NoFrontmatter,
                       step |-> "none"]]
    /\ UNCHANGED <<graphVars, calls, vaultVars, built, clock, walk, notified, det, pe>>

\* the clock advances once a call has taken its timestamp
ConcTick ==
    /\ built
    /\ clock < MaxClock
    /\ \E c \in Calls :
           ins[c].pc # "idle" /\ ins[c].created.title = generateNoteName(clock)
    /\ clock' = clock + 1
    /\ UNCHANGED <<graphVars, calls, vaultVars, built, ins, walk, notified, det, pe>>

\* vault.create of call c settles: it rejects when the path exists;
\* otherwise the note is in the vault, the mutations are calculated and
\* applyMutations reads its first target
ConcNoteCreated(c) ==
    /\ ins[c].pc = "create"
    /\ IF SeqContains(files, ins[c].created.path)
       THEN /\ ins' = [ins EXCEPT ![c] = rejected(ins[c], "create")]
            /\ UNCHANGED <<files, doc>>
       ELSE /\ files' = Append(files, ins[c].created.path)
            /\ doc' = FnSet(doc, ins[c].created.path, createdFrontmatter(ins[c].ctx))
            /\ LET mutations == calculateMutations(ins[c].ctx, ins[c].created)
                   i == firstReadable(mutations, 1, files')
               IN  ins' = [ins EXCEPT
                              ![c].mutations = mutations,
                              ![c].applied = i,
                              ![c].pc = IF i > Len(mutations) THEN "update" ELSE "read"]
    /\ UNCHANGED <<graphVars, calls, folders, folder, built, clock, walk, notified, det, pe>>

\* vault.read of call c resolves with the target's content of that moment;
\* applyMutation rewrites the frontmatter and awaits vault.modify
ConcTargetRead(c) ==
    /\ ins[c].pc = "read"
    /\ LET mutation == ins[c].mutations[ins[c].applied]
       IN  ins' = [ins EXCEPT
                      ![c].content = applyMutation(
                                         getFrontmatter(doc, mutation.targetPath), mutation),
                      ![c].pc = "modify"]
    /\ UNCHANGED <<graphVars, calls, vaultVars, built, clock, walk, notified, det, pe>>

\* the write of call c's vault.modify reaches the file. The promise of
\* vault.modify resolves later, in its own turn of the event loop, and the
\* writes and resolutions of two calls are not ordered against each other
ConcTargetModified(c) ==
    /\ ins[c].pc = "modify"
    /\ LET mutation == ins[c].mutations[ins[c].applied]
           i == firstReadable(ins[c].mutations, ins[c].applied + 1, files)
       IN  /\ doc' = FnSet(doc, mutation.targetPath, ins[c].content)
           /\ ins' = [ins EXCEPT
                         ![c].applied = i,
                         ![c].pc = IF i > Len(ins[c].mutations) THEN "update" ELSE "read"]
    /\ UNCHANGED <<graphVars, calls, files, folders, folder, built, clock, walk, notified, det, pe>>

\* applyMutations of call c has resolved: updateGraph, onGraphUpdate
ConcGraphUpdated(c) ==
    /\ ins[c].pc = "update"
    /\ LET g == updateGraph(ins[c].ctx, ins[c].created)
       IN  /\ prevMap' = g.prevMap
           /\ isMainThread' = g.isMainThread
           /\ nextMap' = g.nextMap
    /\ notified' = notified + 1
    /\ ins' = [ins EXCEPT ![c].pc = "done"]
    /\ UNCHANGED <<calls, vaultVars, built, clock, walk, det, pe>>

InitConc ==
    /\ prevMap = <<>>
    /\ nextMap = EmptyFn
    /\ isMainThread = EmptyFn
    /\ calls = <<>>
    /\ files = DocPaths3
    /\ doc \in [VaultPaths -> [prev : VaultPrevValues, thread : BOOLEAN]]
    /\ folders = {}
    /\ folder = ""
    /\ built = FALSE
    /\ clock = 1
    /\ ins = [c \in Calls |-> IdleIns]
    /\ walk = IdleWalk
    /\ notified = 0
    /\ det = IdleDet
    /\ pe = IdleView

NextConc ==
    \/ BuildGraph
    \/ ConcTick
    \/ \E c \in Calls, currentPath \in VaultPaths : ConcStartInsertion(c, currentPath)
    \/ \E c \in Calls : ConcNoteCreated(c)
    \/ \E c \in Calls : ConcTargetRead(c)
    \/ \E c \in Calls : ConcTargetModified(c)
    \/ \E c \in Calls : ConcGraphUpdated(c)

SpecConc == InitConc /\ [][NextConc]_vars

\* C27: when two executeInsertion calls on the same source, which had the
\* main continuation B, have both completed, however their steps were
\* interleaved, the predecessor of B in the graph is the predecessor of B
\* in the vault.
C27_ConcurrentSameSource ==
    (/\ ins[1].pc = "done" /\ ins[2].pc = "done"
     /\ ins[1].ctx.sourcePath = ins[2].ctx.sourcePath
     /\ ~ins[1].ctx.isAppend)
    => RawPrev(ins[1].ctx.nextPath) = prevPathOf(files, doc, ins[1].ctx.nextPath)

----------------------------------------------------------------------------
(* SpecMutation: applyMutation on the text of a document. A document is    *)
(* its metadata block, line by line, and its body.                         *)

\* the line `key: value` of a metadata block (`key:` when value is "")
Line(key, value) == [item |-> FALSE, key |-> key, value |-> value]

\* the line `  - value` of a metadata block: an element of the list that
\* the line `key:` above it starts
Item(value) == [item |-> TRUE, key |-> "", value |-> value]

\* a document: block says whether it starts with a metadata block
TextDoc(block, lines, body) == [block |-> block, lines |-> lines, body |-> body]

BlockLines ==
    {Line("prev", "[[A]]"), Line("thread", "true"), Line("tags", ""), Item("x")}

\* the metadata blocks that are YAML mappings of scalars and lists: no key
\* twice, and a list element only below `key:` or another list element
WellFormed(lines) ==
    /\ \A i, j \in 1..Len(lines) :
           (i # j /\ ~lines[i].item /\ ~lines[j].item) => lines[i].key # lines[j].key
    /\ \A i \in 1..Len(lines) :
           lines[i].item =>
               /\ i > 1
               /\ lines[i - 1].item \/ lines[i - 1].value = ""

Blocks ==
    {lines \in UNION {[1..n -> BlockLines] : n \in 1..MaxLines} : WellFormed(lines)}

Bodies == {<<>>, <<"text">>}

TextDocs ==
    {TextDoc(TRUE, lines, body) : lines \in Blocks, body \in Bodies}
        \cup {TextDoc(FALSE, <<>>, body) : body \in Bodies}

\* the loop of applyMutation over the lines from i on, properties being
\* the object built so far (its entries in insertion order): a line that
\* matches /^([^:]+):\s*(.*)$/ sets its key, to the mutation's value when
\* the key is the mutation's property; a line without a colon is skipped
RECURSIVE parseProperties(_, _, _, _)
parseProperties(lines, i, mutation, properties) ==
    IF i > Len(lines) THEN properties
    ELSE IF lines[i].item
         THEN parseProperties(lines, i + 1, mutation, properties)
    ELSE parseProperties(lines, i + 1, mutation,
             MapSet(properties, lines[i].key,
                    IF lines[i].key = mutation.property
                    THEN mutation.value ELSE lines[i].value))

\* createFrontmatter: one line `key: value` per entry of properties
createFrontmatter(properties) ==
    [i \in 1..Len(properties) |-> Line(properties[i].k, properties[i].v)]

\* applyMutation from the content read to the content written
applyMutationToText(content, mutation) ==
    IF content.block
    THEN LET parsed == parseProperties(content.lines, 1, mutation, <<>>)
             properties == IF MapHas(parsed, mutation.property) THEN parsed
                           ELSE MapSet(parsed, mutation.property, mutation.value)
         IN  TextDoc(TRUE, createFrontmatter(properties), content.body)
    ELSE TextDoc(TRUE,
                 createFrontmatter(<<[k |-> mutation.property, v |-> mutation.value]>>),
                 content.body)

\* the mutations applied: the one the service issues (prev) and one of a
\* property the block may or may not hold
TextMutations ==
    {[targetPath |-> "B.md", property |-> "prev", value |-> "[[N1]]"],
     [targetPath |-> "B.md", property |-> "thread", value |-> "false"]}

\* applyMutation(mutation): vault.read resolves, the new content is built
\* and vault.modify is awaited
MutationRead(mutation) ==
    /\ ins.pc \in {"idle", "done"}
    /\ SeqContains(files, mutation.targetPath)
    /\ ins' = [pc |-> "modify",
               mutation |-> mutation,
               before |-> doc[mutation.targetPath],
               content |-> applyMutationToText(doc[mutation.targetPath], mutation)]
    /\ UNCHANGED <<graphVars, calls, vaultVars, built, clock, walk, notified, det, pe>>

\* vault.modify resolves
MutationWritten ==
    /\ ins.pc = "modify"
    /\ doc' = FnSet(doc, ins.mutation.targetPath, ins.content)
    /\ ins' = [ins EXCEPT !.pc = "done"]
    /\ UNCHANGED <<graphVars, calls, files, folders, folder, built, clock, walk, notified, det, pe>>

InitMutation ==
    /\ prevMap = <<>>
    /\ nextMap = EmptyFn
    /\ isMainThread = EmptyFn
    /\ calls = <<>>
    /\ files = <<"B.md">>
    /\ \E content \in TextDocs : doc = [path \in {"B.md"} |-> content]
    /\ folders = {}
    /\ folder = ""
    /\ built = FALSE
    /\ clock = 1
    /\ ins = IdleIns
    /\ walk = IdleWalk
    /\ notified = 0
    /\ det = IdleDet
    /\ pe = IdleView

NextMutation ==
    \/ \E mutation \in TextMutations : MutationRead(mutation)
    \/ MutationWritten

SpecMutation == InitMutation /\ [][NextMutation]_vars

\* the properties a metadata block holds, as YAML reads it: each `key:
\* value` line is a property, and the list elements below it are its items
RECURSIVE yamlOf(_, _, _)
yamlOf(lines, i, acc) ==
    IF i > Len(lines) THEN acc
    ELSE IF lines[i].item
         THEN yamlOf(lines, i + 1,
                  IF Len(acc) = 0 THEN acc
                  ELSE [acc EXCEPT ![Len(acc)].items = Append(@, lines[i].value)])
    ELSE yamlOf(lines, i + 1,
             Append(acc, [key |-> lines[i].key, value |-> lines[i].value, items |-> <<>>]))

\* the property of a block named key, NULL when the block has none
PropertyOf(lines, key) ==
    LET y == yamlOf(lines, 1, <<>>)
    IN  IF \E i \in 1..Len(y) : y[i].key = key
        THEN y[CHOOSE i \in 1..Len(y) : y[i].key = key]
        ELSE NULL

PropertyKeys == {"prev", "thread", "tags"}

\* C28: applyMutation leaves every property other than the named one
\* (scalar or list) and the body of the target as they were, and sets the
\* named property; on a document without a metadata block it prepends a
\* block that holds only the named property, before the same body.
C28_MutationFrame ==
    (ins.pc = "done") =>
        LET before == ins.before
            after == doc[ins.mutation.targetPath]
        IN  /\ after.body = before.body
            /\ after.block
            /\ PropertyOf(after.lines, ins.mutation.property)
                   = [key |-> ins.mutation.property, value |-> ins.mutation.value,
                      items |-> <<>>]
            /\ \A key \in PropertyKeys \ {ins.mutation.property} :
                   PropertyOf(after.lines, key) = PropertyOf(before.lines, key)
            /\ ~before.block =>
                   after.lines = <<Line(ins.mutation.property, ins.mutation.value)>>

----------------------------------------------------------------------------
(* SpecSave: a ThreadView that shows a thread, saves the edits of its      *)
(* editors and reloads after an insertion. doc holds the metadata block of *)
(* each file; pe is the view.                                              *)

\* the graph as a value, for a query on the graph an action leaves
Graph == [prevMap |-> prevMap, nextMap |-> nextMap, isMainThread |-> isMainThread]

\* getMainContinuation on the graph g
getMainContinuationIn(g, path) ==
    LET nexts == FnGet(g.nextMap, path, <<>>)
        marked(i) == FnGet(g.isMainThread, nexts[i], FALSE)
    IN  IF Len(nexts) = 0 THEN NULL
        ELSE IF \E i \in 1..Len(nexts) : marked(i)
             THEN nexts[CHOOSE i \in 1..Len(nexts) :
                           marked(i) /\ \A j \in 1..(i - 1) : ~marked(j)]
             ELSE nexts[1]

\* getReplies on the graph g
getRepliesIn(g, path) ==
    SelectSeq(FnGet(g.nextMap, path, <<>>), LAMBDA n : n # getMainContinuationIn(g, path))

\* getThreadRoot on the graph g: backward along prev to the node without
\* predecessor
RECURSIVE getThreadRootIn(_, _)
getThreadRootIn(g, path) ==
    LET prev == MapGet(g.prevMap, path)
    IN  IF prev # NULL /\ prev # "" THEN getThreadRootIn(g, prev) ELSE path

\* getChainFromNote on the graph g
RECURSIVE getChainFromNoteIn(_, _)
getChainFromNoteIn(g, path) ==
    LET n == getMainContinuationIn(g, path)
    IN  IF n = NULL THEN <<path>> ELSE <<path>> \o getChainFromNoteIn(g, n)

\* the elements of a list
Range(seq) == {seq[i] : i \in 1..Len(seq)}

\* loadAndRender up to its first await: the paths of getFullThread(path)
\* (the root, then the main continuations) and of getReplyChains(path), as
\* the graph g gives them
threadPathsIn(g, path) ==
    Range(getChainFromNoteIn(g, getThreadRootIn(g, path))) \cup
        UNION {Range(getChainFromNoteIn(g, r)) : r \in Range(getRepliesIn(g, path))}

\* a view without a file: no thread data, no loadAndRender and no
\* handleContentChange in flight. saved is history: the file the last
\* handleContentChange wrote, and whether that call was issued after an
\* insertion had rewritten the prev of that file
NoFile == [file |-> NULL, threadData |-> EmptyFn, loaded |-> FALSE,
           load |-> [pc |-> "none"], save |-> [pc |-> "none"],
           saved |-> [path |-> NULL, after |-> FALSE]]

\* the call in flight or the last call has rewritten the prev of path in
\* the vault
Rewritten(path) ==
    /\ ins.pc \in {"update", "done"}
    /\ ~ins.ctx.isAppend
    /\ ins.ctx.nextPath = path

\* a loadAndRender call that is awaiting its reads
loadStarted(g, path) == [pc |-> "read", paths |-> threadPathsIn(g, path), notes |-> EmptyFn]

\* the view opens a file: setViewData, loadAndRender up to its first await
ViewOpened(path) ==
    /\ built
    /\ pe.file = NULL
    /\ pe' = [pe EXCEPT !.file = path, !.load = loadStarted(Graph, path)]
    /\ UNCHANGED <<graphVars, calls, vaultVars, built, clock, ins, walk, notified, det>>

\* the reads of loadNoteContent resolve: each note with the frontmatter its
\* file has now (a path that is no file gives no note)
NotesRead ==
    /\ pe.load.pc = "read"
    /\ pe' = [pe EXCEPT !.load.pc = "set",
                        !.load.notes = [path \in {q \in pe.load.paths : SeqContains(files, q)}
                                           |-> doc[path]]]
    /\ UNCHANGED <<graphVars, calls, vaultVars, built, clock, ins, walk, notified, det>>

\* loadAndRender sets this.threadData and renders
ThreadDataSet ==
    /\ pe.load.pc = "set"
    /\ pe' = [pe EXCEPT !.threadData = pe.load.notes, !.loaded = TRUE,
                        !.load = [pc |-> "none"]]
    /\ UNCHANGED <<graphVars, calls, vaultVars, built, clock, ins, walk, notified, det>>

\* handleContentChange(body, filePath) from the editor of a rendered note,
\* up to its await: the frontmatter is the one cached in threadData
ContentChanged(filePath) ==
    /\ pe.loaded
    /\ filePath \in DOMAIN pe.threadData
    /\ SeqContains(files, filePath)
    /\ pe.save.pc = "none"
    /\ pe' = [pe EXCEPT !.save = [pc |-> "modify", path |-> filePath,
                                  frontmatter |-> pe.threadData[filePath],
                                  after |-> Rewritten(filePath)]]
    /\ UNCHANGED <<graphVars, calls, vaultVars, built, clock, ins, walk, notified, det>>

\* vault.modify(file, frontmatter + body) of handleContentChange resolves
ContentSaved ==
    /\ pe.save.pc = "modify"
    /\ doc' = FnSet(doc, pe.save.path, pe.save.frontmatter)
    /\ pe' = [pe EXCEPT !.save = [pc |-> "none"],
                        !.saved = [path |-> pe.save.path, after |-> pe.save.after]]
    /\ UNCHANGED <<graphVars, calls, files, folders, folder, built, clock, ins, walk, notified, det>>

\* applyMutations has resolved: updateGraph, then onGraphUpdate, which is
\* refreshActiveThreadViews: a view with a file runs setViewData and so
\* loadAndRender up to its first await, on the updated graph
GraphUpdatedViewsRefreshed ==
    /\ ins.pc = "update"
    /\ LET g == updateGraph(ins.ctx, ins.created)
       IN  /\ prevMap' = g.prevMap
           /\ isMainThread' = g.isMainThread
           /\ nextMap' = g.nextMap
    /\ notified' = notified + 1
    /\ ins' = [ins EXCEPT !.pc = "done"]
    /\ pe' = IF pe.file # NULL
             THEN [pe EXCEPT !.load = loadStarted(updateGraph(ins.ctx, ins.created),
                                                  pe.file)]
             ELSE pe
    /\ UNCHANGED <<calls, vaultVars, built, clock, walk, det>>

\* the vault: A starts a thread, B continues A, C starts a thread or
\* continues A or B
InitSave ==
    /\ prevMap = <<>>
    /\ nextMap = EmptyFn
    /\ isMainThread = EmptyFn
    /\ calls = <<>>
    /\ files = DocPaths3
    /\ \E cPrev \in {YNull, WikiValue("A"), WikiValue("B")}, bThread, cThread \in BOOLEAN :
           doc = [path \in VaultPaths |->
                     IF path = "A.md" THEN [prev |-> YNull, thread |-> FALSE]
                     ELSE IF path = "B.md" THEN [prev |-> WikiValue("A"), thread |-> bThread]
                     ELSE [prev |-> cPrev, thread |-> cThread]]
    /\ folders = {}
    /\ folder = ""
    /\ built = FALSE
    /\ clock = 1
    /\ ins = IdleIns
    /\ walk = IdleWalk
    /\ notified = 0
    /\ det = IdleDet
    /\ pe = NoFile

NextSave ==
    \/ BuildGraph
    \/ \E path \in VaultPaths : ViewOpened(path)
    \/ NotesRead
    \/ ThreadDataSet
    \/ \E filePath \in VaultPaths : ContentChanged(filePath)
    \/ ContentSaved
    \/ \E currentPath \in VaultPaths : StartInsertion(currentPath)
    \/ NoteCreated
    \/ TargetRead
    \/ TargetModified
    \/ GraphUpdatedViewsRefreshed

SpecSave == InitSave /\ [][NextSave]_vars

\* C29: when a completed executeInsertion has rewritten the prev of the
\* next note B in the vault and the view has then saved an edit of B
\* (handleContentChange issued after the rewrite, before or after the view
\* reloaded), the stored prev of B still points at the new note.
C29_SaveKeepsMetadata ==
    (/\ InsertionDone /\ ~ins.ctx.isAppend
     /\ pe.saved.path = ins.ctx.nextPath /\ pe.saved.after)
    => prevPathOf(files, doc, ins.ctx.nextPath) = ins.created.path

----------------------------------------------------------------------------
(* Claims about the shape of the chains *)

\* k steps backward from x in the prev mapping pm
RECURSIVE PrevIterIn(_, _, _)
PrevIterIn(pm, x, k) ==
    IF k = 0 THEN x
    ELSE IF PrevIterIn(pm, x, k - 1) = NULL THEN NULL
    ELSE MapGet(pm, PrevIterIn(pm, x, k - 1))

NodesIn(pm) == ({pm[i].k : i \in 1..Len(pm)} \cup {pm[i].v : i \in 1..Len(pm)}) \ {NULL}

\* the prev mapping pm is acyclic and no node is the stored predecessor of
\* two nodes
ChainShapedIn(pm) ==
    /\ \A x \in NodesIn(pm) : \A k \in 1..Cardinality(NodesIn(pm)) : PrevIterIn(pm, x, k) # x
    /\ \A y \in NodesIn(pm) : Len(RawSuccessorsIn(pm, y)) <= 1

\* the graph a call found: its prev mapping, and the successor lists that
\* invert it. No node has two successors where the claim looks at it, so
\* the markers do not matter for the main continuation
GraphBefore ==
    [prevMap |-> ins.pre.prevMap,
     nextMap |-> buildNextMap(ins.pre.prevMap, EmptyFn),
     isMainThread |-> EmptyFn]

\* getFullThread(path) on the graph g
fullThreadIn(g, path) == getChainFromNoteIn(g, getThreadRootIn(g, path))

\* the list s with x put right after its element y
InsertedAfter(s, y, x) ==
    LET i == CHOOSE n \in 1..Len(s) : s[n] = y
    IN  SubSeq(s, 1, i) \o <<x>> \o SubSeq(s, i + 1, Len(s))

\* C30: a completed executeInsertion that found the prev mapping acyclic
\* and every node with at most one successor leaves it so, and the full
\* thread of its source is the former one with the created note put right
\* after the source; between the updateGraph of one call and that of the
\* next the graph does not change, so this holds along any sequence of
\* calls that do not overlap.
C30_ChainShapeKept ==
    /\ [](InsertionDone /\ ChainShapedIn(ins.pre.prevMap) =>
            /\ ChainShapedIn(prevMap)
            /\ \A y \in GraphNodes : Len(getNext(y)) <= 1
            /\ ~SeqContains(fullThreadIn(GraphBefore, ins.ctx.sourcePath), ins.created.path)
            /\ fullThreadIn(Graph, ins.ctx.sourcePath) =
                   InsertedAfter(fullThreadIn(GraphBefore, ins.ctx.sourcePath),
                                 ins.ctx.sourcePath, ins.created.path))
    /\ [][(built /\ ins.pc # "update") => UNCHANGED <<prevMap, nextMap, isMainThread>>]_vars

\* C30 witness: the second of two completed calls was a mid-chain insertion
\* into a chain-shaped graph; the thread of its source had at least two
\* notes and has one more now, the created note right before the former
\* successor of the source.
C30_Witness ==
    /\ InsertionDone
    /\ notified = 2
    /\ ~ins.ctx.isAppend
    /\ ChainShapedIn(ins.pre.prevMap)
    /\ Len(fullThreadIn(GraphBefore, ins.ctx.sourcePath)) >= 2
    /\ Len(fullThreadIn(Graph, ins.ctx.sourcePath)) =
           Len(fullThreadIn(GraphBefore, ins.ctx.sourcePath)) + 1
    /\ getMainContinuationIn(Graph, ins.ctx.sourcePath) = ins.created.path
    /\ getMainContinuationIn(Graph, ins.created.path) = ins.ctx.nextPath

----------------------------------------------------------------------------
(* EmptyLineObserver: the trigger detector of one editor *)

\* config.threshold: settings.insertionLineThreshold, the lowest value the
\* settings slider offers
Threshold == 3

\* the characters of a document: a letter, a line break, a blank
Chars == {"a", "\n", " "}

Contents == UNION {[1..n -> Chars] : n \in 0..MaxDocLen}

\* the second loop of countEmptyLinesAtEnd, at 1-based position i
RECURSIVE countNewlinesFrom(_, _, _)
countNewlinesFrom(content, i, count) ==
    IF i < 1 THEN count
    ELSE IF content[i] = "\n"
         THEN countNewlinesFrom(content,
                  IF i - 1 >= 1 /\ content[i - 1] = "\r" THEN i - 2 ELSE i - 1,
                  count + 1)
    ELSE IF content[i] = " " \/ content[i] = "\t"
         THEN countNewlinesFrom(content, i - 1, count)
    ELSE count

\* the first loop of countEmptyLinesAtEnd: the position left of the
\* trailing blanks
RECURSIVE skipBlanks(_, _)
skipBlanks(content, i) ==
    IF i >= 1 /\ content[i] = " " THEN skipBlanks(content, i - 1) ELSE i

\* countEmptyLinesAtEnd: the line breaks in the trailing whitespace
countEmptyLinesAtEnd(content) ==
    IF Len(content) = 0 THEN 0
    ELSE countNewlinesFrom(content, skipBlanks(content, Len(content)), 0)

\* the loop of cleanupEmptyLines at 1-based position i: trimFrom (0-based)
\* moves to behind each line break from the second one on
RECURSIVE trimFromAt(_, _, _, _)
trimFromAt(content, i, newlineCount, trimFrom) ==
    IF i < 1 THEN trimFrom
    ELSE IF content[i] = "\n"
         THEN trimFromAt(content, i - 1, newlineCount + 1,
                         IF newlineCount + 1 > 1 THEN i ELSE trimFrom)
    ELSE IF content[i] # "\r" /\ content[i] # " " /\ content[i] # "\t"
         THEN trimFrom
    ELSE trimFromAt(content, i - 1, newlineCount, trimFrom)

\* cleanupEmptyLines: the document after its dispatch, if it dispatches
cleanupEmptyLines(content) ==
    LET trimFrom == trimFromAt(content, Len(content), 0, Len(content))
    IN  IF trimFrom < Len(content)
        THEN Append(SubSeq(content, 1, trimFrom), "\n")
        ELSE content

\* plausible bug: the already-triggered flag is not set
checkTriggerNoFlag(d, filePath) ==
    IF countEmptyLinesAtEnd(d.content) >= Threshold /\ ~d.triggered
    THEN IF filePath # NULL
         THEN [d EXCEPT !.content = cleanupEmptyLines(d.content),
                        !.debounceTimer = (cleanupEmptyLines(d.content) # d.content),
                        !.fired = d.fired + 1,
                        !.cleared = FALSE]
         ELSE d
    ELSE IF countEmptyLinesAtEnd(d.content) < Threshold
         THEN [d EXCEPT !.triggered = FALSE, !.cleared = TRUE]
    ELSE d

\* checkTrigger, run by the debounce timer (d.debounceTimer is already
\* false): the observer it leaves. The dispatch of cleanupEmptyLines
\* changes the document, so update() runs and sets the timer again.
\* fired counts the onTrigger invocations; cleared records that a check has
\* seen fewer than Threshold empty lines since the last invocation
checkTrigger(d, filePath) ==
    LET emptyLineCount == countEmptyLinesAtEnd(d.content)
    IN  IF emptyLineCount >= Threshold /\ ~d.triggered
        THEN IF filePath # NULL
             THEN [d EXCEPT !.triggered = TRUE,
                            !.content = cleanupEmptyLines(d.content),
                            !.debounceTimer = (cleanupEmptyLines(d.content) # d.content),
                            !.fired = d.fired + 1,
                            !.cleared = FALSE]
             ELSE [d EXCEPT !.triggered = TRUE]
        ELSE IF emptyLineCount < Threshold
             THEN [d EXCEPT !.triggered = FALSE, !.cleared = TRUE]
        ELSE d

\* update(update) with update.docChanged: the user's edit leaves the
\* document as content, a pending timer is cleared and a new one is set
Update(content) ==
    /\ det.fired < MaxFired
    /\ content # det.content
    /\ det' = [det EXCEPT !.content = content, !.debounceTimer = TRUE]
    /\ UNCHANGED <<graphVars, calls, vaultVars, built, clock, ins, walk, notified, pe>>

\* the debounce timer fires: checkTrigger; getFilePath() may return null
CheckTrigger ==
    /\ det.debounceTimer
    /\ \E filePath \in {NULL, "A.md"} :
           det' = checkTrigger([det EXCEPT !.debounceTimer = FALSE], filePath)
    /\ UNCHANGED <<graphVars, calls, vaultVars, built, clock, ins, walk, notified, pe>>

InitTrigger ==
    /\ prevMap = <<>>
    /\ nextMap = EmptyFn
    /\ isMainThread = EmptyFn
    /\ calls = <<>>
    /\ files = <<>>
    /\ doc = EmptyFn
    /\ folders = {}
    /\ folder = ""
    /\ built = FALSE
    /\ clock = 1
    /\ ins = IdleIns
    /\ walk = IdleWalk
    /\ notified = 0
    /\ \E content \in Contents : det = [IdleDet EXCEPT !.content = content]
    /\ pe = IdleView

NextTrigger ==
    \/ \E content \in Contents : Update(content)
    \/ CheckTrigger

SpecTrigger == InitTrigger /\ [][NextTrigger]_vars

\* C15: one check invokes onTrigger at most once, and an invocation that
\* is not the first comes after a check that saw fewer trailing empty lines
\* than the threshold (and reset the flag) since the invocation before it.
C15_TriggerRearm ==
    [][(det'.fired # det.fired) =>
          /\ det'.fired = det.fired + 1
          /\ ~det.triggered
          /\ det.fired > 0 => det.cleared]_vars

\* C15 witness: onTrigger was invoked a second time, the flag is set, and
\* the cleanup has left fewer empty lines than the threshold.
C15_Witness ==
    /\ det.fired = 2
    /\ det.triggered
    /\ ~det.cleared
    /\ countEmptyLinesAtEnd(det.content) < Threshold

----------------------------------------------------------------------------
(* SpecDebounce: the same observer with the time of its debounce timer *)

\* the documents of a burst: a line of text and up to Threshold + 1 line
\* breaks behind it
BurstContents == {<<"a">> \o [i \in 1..k |-> "\n"] : k \in 0..(Threshold + 1)}

\* the observer with its timer's time. left is the time until the pending
\* timer fires. History: idle is the time since the last document change
\* (up to the delay), checks the checkTrigger runs since then, ran flips
\* with every checkTrigger run, changed says that the document has changed
DebounceDet(content) ==
    [content |-> content, debounceTimer |-> FALSE, triggered |-> FALSE,
     fired |-> 0, cleared |-> FALSE,
     left |-> 0, idle |-> 0, checks |-> 0, ran |-> FALSE,
     changed |-> FALSE, destroyed |-> FALSE]

\* plausible bug: a timer that is pending is kept (no clearTimeout, and a
\* new timer only when none is pending)
updateKeepTimer(d, content) ==
    [d EXCEPT !.content = content,
              !.debounceTimer = TRUE,
              !.left = IF d.debounceTimer THEN d.left ELSE DebounceTicks,
              !.idle = 0, !.checks = 0, !.changed = TRUE]

\* update(update) with update.docChanged: clearTimeout of the pending
\* timer, setTimeout of a new one with the whole delay
update(d, content) ==
    [d EXCEPT !.content = content,
              !.debounceTimer = TRUE,
              !.left = DebounceTicks,
              !.idle = 0, !.checks = 0, !.changed = TRUE]

\* the user changes the document
DocChanged(content) ==
    /\ ~det.destroyed
    /\ det.fired < MaxFired
    /\ content # det.content
    /\ det' = update(det, content)
    /\ UNCHANGED <<graphVars, calls, vaultVars, built, clock, ins, walk, notified, pe>>

\* a tick of time passes while a timer is pending
TimePasses ==
    /\ ~det.destroyed
    /\ det.debounceTimer
    /\ det.left > 0
    /\ det' = [det EXCEPT !.left = det.left - 1,
                          !.idle = IF det.idle < DebounceTicks THEN det.idle + 1
                                   ELSE det.idle]
    /\ UNCHANGED <<graphVars, calls, vaultVars, built, clock, ins, walk, notified, pe>>

\* the pending timer fires: checkTrigger runs; when its cleanup dispatches
\* a change of the document, update() runs within the dispatch
TimerFires ==
    /\ ~det.destroyed
    /\ det.debounceTimer
    /\ det.left = 0
    /\ \E filePath \in {NULL, "A.md"} :
           LET r == checkTrigger([det EXCEPT !.debounceTimer = FALSE,
                                             !.ran = ~det.ran,
                                             !.checks = det.checks + 1], filePath)
           IN  det' = IF r.content # det.content THEN update(r, r.content) ELSE r
    /\ UNCHANGED <<graphVars, calls, vaultVars, built, clock, ins, walk, notified, pe>>

\* destroy(): the pending timer is cleared; the plugin gets no more updates
Destroy ==
    /\ ~det.destroyed
    /\ det' = [det EXCEPT !.debounceTimer = FALSE, !.destroyed = TRUE]
    /\ UNCHANGED <<graphVars, calls, vaultVars, built, clock, ins, walk, notified, pe>>

InitDebounce ==
    /\ prevMap = <<>>
    /\ nextMap = EmptyFn
    /\ isMainThread = EmptyFn
    /\ calls = <<>>
    /\ files = <<>>
    /\ doc = EmptyFn
    /\ folders = {}
    /\ folder = ""
    /\ built = FALSE
    /\ clock = 1
    /\ ins = IdleIns
    /\ walk = IdleWalk
    /\ notified = 0
    /\ \E content \in BurstContents : det = DebounceDet(content)
    /\ pe = IdleView

NextDebounce ==
    \/ \E content \in BurstContents : DocChanged(content)
    \/ TimePasses
    \/ TimerFires
    \/ Destroy

SpecDebounce == InitDebounce /\ [][NextDebounce]_vars

\* C25: every document change leaves a pending timer with the whole delay
\* before it, whatever was pending; checkTrigger runs only when the whole
\* delay has passed since the last document change, so not between two
\* changes that are less than the delay apart; it runs at most once per
\* burst, and exactly once when the timer of the burst is gone; after
\* destroy() it does not run.
C25_Debounce ==
    /\ [](det.checks <= 1)
    /\ []((det.changed /\ ~det.debounceTimer /\ ~det.destroyed) => det.checks = 1)
    /\ [](det.debounceTimer => det.left = DebounceTicks - det.idle)
    /\ [][/\ (det'.content # det.content) =>
                 /\ det'.debounceTimer
                 /\ det'.left = DebounceTicks
                 /\ det'.checks = 0
          /\ (det'.ran # det.ran) =>
                 /\ det.debounceTimer
                 /\ det.idle = DebounceTicks
                 /\ det.checks = 0
          /\ det.destroyed => det'.ran = det.ran]_vars

\* C25 witness: a check ran once the delay had passed, saw the threshold
\* reached and invoked onTrigger; the document change of its cleanup has
\* left a new timer pending with the whole delay before it.
C25_Witness ==
    /\ det.changed
    /\ det.ran
    /\ det.fired = 1
    /\ det.triggered
    /\ det.debounceTimer
    /\ det.checks = 0
    /\ det.left = DebounceTicks

----------------------------------------------------------------------------
(* ThreadView and PropertyEditor: the add-property command *)

\* the effect of PropertyEditor on triggerAddForm
addFormEffect(p) ==
    IF p.prop # 0 /\ p.prop > p.lastTrigger
    THEN [p EXCEPT !.lastTrigger = p.prop, !.isAdding = TRUE]
    ELSE p

\* renderView: nothing without root or thread data; else the PropertyEditor
\* is rendered with the counter as triggerAddForm. A first render mounts
\* it (isAdding false, lastTrigger 0) and runs the effect; a later render
\* runs the effect when triggerAddForm has changed
renderView(p) ==
    IF ~p.root \/ ~p.loaded THEN p
    ELSE IF ~p.mounted
         THEN addFormEffect([p EXCEPT !.mounted = TRUE, !.prop = p.counter,
                                      !.isAdding = FALSE, !.lastTrigger = 0])
    ELSE IF p.prop # p.counter
         THEN addFormEffect([p EXCEPT !.prop = p.counter])
    ELSE p

\* the mechanism before the fix: a boolean flag that is set, so the prop
\* of the second call does not differ from that of the first
triggerAddPropertyFormBoolean(p) == renderView([p EXCEPT !.counter = 1])

\* triggerAddPropertyForm: the counter is incremented, then renderView
triggerAddPropertyForm(p) == renderView([p EXCEPT !.counter = p.counter + 1])

\* onOpen: the React root is created
OnOpen ==
    /\ ~pe.root
    /\ pe' = [pe EXCEPT !.root = TRUE]
    /\ UNCHANGED <<graphVars, calls, vaultVars, built, clock, ins, walk, notified, det>>

\* setViewData: loadAndRender has set the thread data and calls renderView
ViewLoaded ==
    /\ pe.root
    /\ pe' = renderView([pe EXCEPT !.loaded = TRUE])
    /\ pe' # pe
    /\ UNCHANGED <<graphVars, calls, vaultVars, built, clock, ins, walk, notified, det>>

\* clear: the thread data is dropped, what is rendered stays
ViewCleared ==
    /\ pe.loaded
    /\ pe' = [pe EXCEPT !.loaded = FALSE]
    /\ UNCHANGED <<graphVars, calls, vaultVars, built, clock, ins, walk, notified, det>>

\* onClose: the root is unmounted, with it the state of the PropertyEditor
OnClose ==
    /\ pe.root
    /\ pe' = [pe EXCEPT !.root = FALSE, !.loaded = FALSE, !.mounted = FALSE,
                        !.prop = 0, !.isAdding = FALSE, !.lastTrigger = 0]
    /\ UNCHANGED <<graphVars, calls, vaultVars, built, clock, ins, walk, notified, det>>

\* the add-property command on the active ThreadView
TriggerAddPropertyForm ==
    /\ pe.invoked < MaxInvoked
    /\ pe' = [triggerAddPropertyForm(pe) EXCEPT
                  !.invoked = pe.invoked + 1, !.afterClose = pe.closed]
    /\ UNCHANGED <<graphVars, calls, vaultVars, built, clock, ins, walk, notified, det>>

\* the form is closed: Cancel, or Add (handleAddProperty), both through
\* handleSetIsAdding(false)
FormClosed ==
    /\ pe.mounted /\ pe.isAdding
    /\ pe' = [pe EXCEPT !.isAdding = FALSE, !.closed = TRUE]
    /\ UNCHANGED <<graphVars, calls, vaultVars, built, clock, ins, walk, notified, det>>

\* the + button: handleSetIsAdding(true)
AddClicked ==
    /\ pe.mounted /\ ~pe.isAdding
    /\ pe' = [pe EXCEPT !.isAdding = TRUE]
    /\ UNCHANGED <<graphVars, calls, vaultVars, built, clock, ins, walk, notified, det>>

InitView ==
    /\ prevMap = <<>>
    /\ nextMap = EmptyFn
    /\ isMainThread = EmptyFn
    /\ calls = <<>>
    /\ files = <<>>
    /\ doc = EmptyFn
    /\ folders = {}
    /\ folder = ""
    /\ built = FALSE
    /\ clock = 1
    /\ ins = IdleIns
    /\ walk = IdleWalk
    /\ notified = 0
    /\ det = IdleDet
    /\ pe = IdleView

NextView ==
    \/ OnOpen
    \/ ViewLoaded
    \/ ViewCleared
    \/ OnClose
    \/ TriggerAddPropertyForm
    \/ FormClosed
    \/ AddClicked

SpecView == InitView /\ [][NextView]_vars

====
